---- MODULE Spec2Model ----
(***************************************************************************)
(* Verification model of the terminal forms engine of the NiceOS           *)
(* installer (photon_installer): the wizard controller loop of             *)
(* IsoConfig.configure, the list widget Menu, the scrollbar thumb          *)
(* arithmetic of Menu and TextPane, and the Window composite.              *)
(*                                                                         *)
(* Each component is a state machine of its own with its own               *)
(* specification (SpecWizard, SpecMenu, SpecThumb, SpecWindow); the        *)
(* variables of the other components stay at their idle values.            *)
(***************************************************************************)
EXTENDS Integers, Sequences, FiniteSets, TLC

VARIABLES
    \* ---- wizard controller (iso_config.py, IsoConfig.configure) ----
    items,        \* the page list: items[i+1] models items[i] of the code
    index,        \* the cursor, 0-based as in the code
    go_next,      \* the direction flag of the loop
    wpc,          \* "loop" | "done" (break, return install_config) | "exited" (exit(0))
    ar,           \* the Outcome of the last page invoked, after the inactive rewrite
    arRaw,        \* the Outcome as the page returned it
    lastIndex,    \* the index of the last page invoked, -1 before the first
    prevGoNext,   \* go_next as it was when the last page was invoked
    \* ---- list widget (menu.py, Menu) ----
    m_num_items,      \* self.num_items = len(self.items)
    m_height,         \* self.height
    m_position,       \* self.position
    m_head_position,  \* self.head_position
    m_filled,         \* self.filled
    m_show_scroll,    \* self.show_scroll
    m_n,              \* the argument of the last navigate call
    m_before,         \* position before the last navigate call
    m_before_head,    \* head_position before the last navigate call
    m_calls,          \* navigate calls so far: 0, 1, or 2 for "two or more"
    m_rendered,       \* what the last refresh() drew
    \* ---- scrollbar thumb at construction (menu.py, textpane.py) ----
    th_widget,        \* "menu" | "textpane"
    th_num_items,     \* number of items / wrapped lines
    th_height,        \* viewport height (height / text_height)
    th_built,         \* the constructor has run
    th_show_scroll,   \* self.show_scroll
    th_filled,        \* self.filled
    \* ---- Window (window.py) ----
    w_can_go_back,    \* self.can_go_back
    w_can_go_next,    \* self.can_go_next
    w_items,          \* len(self.items), the appended Next item included
    w_has_next,       \* the last item is the Next item of update_next_item
    w_menu_helper,    \* self.menu_helper is set
    w_action_panel,   \* self.action_panel is set
    w_tab_enabled,    \* self.tab_enabled
    w_read_text,      \* self.read_text
    w_position,       \* self.position
    w_shown,          \* visibility of the shadow, content and text panels
    w_z,              \* the panel stack: the visible panels, bottom to top
    w_z_before,       \* the panel stack when the last step began
    w_panel_shown,    \* visibility of the action panel
    w_pc,             \* where do_action stands: "idle" or the call it blocks in
    w_ar,             \* action_result, the last Outcome of the action panel
    w_via,            \* the panel call that produced w_ar
    w_ret,            \* what the last do_action returned
    w_event,          \* what the last step handled
    w_event_pos,      \* self.position when that step began
    w_cbs,            \* button callbacks invoked by the last step
    w_cb_last,        \* the behaviour of the last callback that step invoked
    w_helper,         \* the last step called menu_helper
    w_pre,            \* button callbacks that step invoked before menu_helper
    w_cb_first,       \* the behaviour of the callback invoked at line 255
    \* ---- the key loop of the list widget (menu.py, Menu.do_action) ----
    r_num_items,             \* self.num_items
    r_height,                \* self.height
    r_selector_menu,         \* self.selector_menu
    r_can_navigate_outside,  \* self.can_navigate_outside
    r_save_sel,              \* self.save_sel
    r_tab_enable,            \* self.tab_enable
    r_position,              \* self.position
    r_head_position,         \* self.head_position
    r_selected_items,        \* self.selected_items
    r_shown,                 \* the panel of the menu is shown
    r_pc,                    \* "idle" | "loop" (blocked in getch) | "raised"
    r_ret,                   \* what the last do_action returned
    r_key,                   \* the last key read
    r_before,                \* position, head_position, selected_items before it
    r_invoked,               \* the handler invocations that key caused
    \* ---- the key loop of the text pane (textpane.py, TextPane.do_action) ----
    tp_num_items,     \* len(self.lines)
    tp_text_height,   \* self.text_height
    tp_show_scroll,   \* self.show_scroll
    tp_menu_items,    \* len(self.menu_items)
    tp_head_position, \* self.head_position
    tp_menu_position, \* self.menu_position
    tp_shown,         \* the panel of the pane is shown
    tp_pc,            \* "idle" | "loop" (blocked in getch)
    tp_ret,           \* what the last do_action returned
    tp_key,           \* the last key read
    tp_before,        \* head_position and menu_position before that key
    \* ---- the constructor of the text pane (textpane.py, TextPane.__init__) ----
    tn_args,          \* the arguments of the call
    tn_pc,            \* "args" | "built" | "raised"
    tn_exc,           \* the exception that left the constructor
    tn_lines,         \* self.lines, as the lengths of the lines
    tn_text_height,   \* self.text_height
    tn_num_items,     \* self.num_items
    tn_show_scroll,   \* self.show_scroll
    \* ---- the constructor of the Window (window.py, Window.__init__) ----
    wn_args,          \* the arguments of the call
    wn_pc,            \* "args" | "built" | "raised"
    wn_exc,           \* the exception that left the constructor
    wn_surfaces,      \* the curses windows created (content, text, shadow)
    wn_yx,            \* self.y and self.x
    wn_z,             \* the panel stack of the Window, bottom to top
    \* ---- the download page (filedownloader.py, FileDownloader.display) ----
    d_setup_network,  \* self.setup_network
    d_files,          \* len(install_config['additional_files']), -1: no key
    d_files_before,   \* the same when display was called
    d_pc,             \* "idle" or the call display blocks in
    d_ret,            \* what the last display returned
    d_failure,        \* the external failure met by this call
    d_acked,          \* an error panel was shown and a key pressed since
    \* ---- a page: a Window with its list (selectdisk.py, wheelselector.py) ----
    pg_kind,          \* "disk" (SelectDisk) or "wheel" (WheelSelector)
    pg_disk,          \* the device whose path install_config['disk'] holds
    pg_wheel,         \* the item whose payload install_config['user_wheel'] holds
    pg_handled,       \* the list items whose handler this run invoked
    pg_ar_disk,       \* the diskIndex of the Window's action_result
    \* ---- wrapping one line of the file (textpane.py, TextPane.read_file) ----
    rf_line,          \* the line read from the file, decoded
    rf_line_width,    \* the argument line_width
    rf_pc,            \* "off" | "line" | "wrap" | "done"
    rf_indent,        \* indent
    rf_rest,          \* line, what is left to emit
    rf_lines,         \* what this line appended to self.lines
    rf_prev           \* len(line) before the last pass of the while loop

wizVars == <<items, index, go_next, wpc, ar, arRaw, lastIndex, prevGoNext>>

menuVars == <<m_num_items, m_height, m_position, m_head_position, m_filled,
              m_show_scroll, m_n, m_before, m_before_head, m_calls,
              m_rendered>>

thumbVars == <<th_widget, th_num_items, th_height, th_built, th_show_scroll,
               th_filled>>

winVars == <<w_can_go_back, w_can_go_next, w_items, w_has_next, w_menu_helper,
             w_action_panel, w_tab_enabled, w_read_text, w_position, w_shown,
             w_panel_shown, w_pc, w_ar, w_via, w_ret, w_event, w_event_pos,
             w_cbs, w_cb_last, w_helper, w_pre, w_cb_first, w_z, w_z_before>>

runVars == <<r_num_items, r_height, r_selector_menu, r_can_navigate_outside,
             r_save_sel, r_tab_enable, r_position, r_head_position,
             r_selected_items, r_shown, r_pc, r_ret, r_key, r_before,
             r_invoked>>

tpVars == <<tp_num_items, tp_text_height, tp_show_scroll, tp_menu_items,
            tp_head_position, tp_menu_position, tp_shown, tp_pc, tp_ret,
            tp_key, tp_before>>

tnVars == <<tn_args, tn_pc, tn_exc, tn_lines, tn_text_height, tn_num_items,
            tn_show_scroll>>

wnVars == <<wn_args, wn_pc, wn_exc, wn_surfaces, wn_yx, wn_z>>

dVars == <<d_setup_network, d_files, d_files_before, d_pc, d_ret, d_failure,
           d_acked>>

pgVars == <<pg_kind, pg_disk, pg_wheel, pg_handled, pg_ar_disk>>

rfVars == <<rf_line, rf_line_width, rf_pc, rf_indent, rf_rest, rf_lines,
            rf_prev>>

vars == <<wizVars, menuVars, thumbVars, winVars, runVars, tpVars, tnVars,
          wnVars, dVars, pgVars, rfVars>>

\* the variables of the components an action does not belong to
notWiz == <<menuVars, thumbVars, winVars, runVars, tpVars, tnVars, wnVars,
            dVars, pgVars, rfVars>>
notMenu == <<wizVars, thumbVars, winVars, runVars, tpVars, tnVars, wnVars,
             dVars, pgVars, rfVars>>
notThumb == <<wizVars, menuVars, winVars, runVars, tpVars, tnVars, wnVars,
              dVars, pgVars, rfVars>>
notWin == <<wizVars, menuVars, thumbVars, runVars, tpVars, tnVars, wnVars,
            dVars, pgVars, rfVars>>
notRun == <<wizVars, menuVars, thumbVars, winVars, tpVars, tnVars, wnVars,
            dVars, pgVars, rfVars>>
notTp == <<wizVars, menuVars, thumbVars, winVars, runVars, tnVars, wnVars,
           dVars, pgVars, rfVars>>
notTn == <<wizVars, menuVars, thumbVars, winVars, runVars, tpVars, wnVars,
           dVars, pgVars, rfVars>>
notWn == <<wizVars, menuVars, thumbVars, winVars, runVars, tpVars, tnVars,
           dVars, pgVars, rfVars>>
notD == <<wizVars, menuVars, thumbVars, winVars, runVars, tpVars, tnVars,
          wnVars, pgVars, rfVars>>
\* a page owns its Window and its list
notPg == <<wizVars, menuVars, thumbVars, tpVars, tnVars, wnVars, dVars,
           rfVars>>
notRf == <<wizVars, menuVars, thumbVars, winVars, runVars, tpVars, tnVars,
           wnVars, dVars, pgVars>>

(***************************************************************************)
(* Bounds                                                                  *)
(***************************************************************************)
MaxPages == 4

\* list widget: item counts, navigate deltas
MaxItems == 5
MaxDelta == 7

\* thumb arithmetic: item counts
MaxThumbItems == 12

\* the key loop of the list widget: item counts
MaxRunItems == 3

\* Window: button items passed to the constructor, and the cap on the
\* position of a Window without items and without Back (refresh does not
\* clamp it)
MaxButtons == 2
MaxPosition == 3

\* text panes: the lines of the text and the height parameter
MaxTextLines == 4
MaxTextHeight == 5
MaxTextWidth == 5

\* Window(height, width, maxy, maxx, ...): the window and the screen
MaxWinDim == 7
MaxScreen == 6

\* the entries of install_config['additional_files']
MaxFiles == 3

\* characters of a line of the text file, before its line end
MaxLineLen == 4

(***************************************************************************)
(* Outcome values (actionresult.py).  success is one of the three Python   *)
(* values the pages return; the payload is None (isNone) or a map, of      *)
(* which the controller reads the keys inactive_screen and yes with the    *)
(* default False.                                                          *)
(***************************************************************************)
ActionResult(success, isNone, inactive_screen, yes) ==
    [success |-> success, isNone |-> isNone,
     inactive_screen |-> inactive_screen, yes |-> yes]

NoResult == ActionResult("None", TRUE, FALSE, FALSE)

\* Python truthiness of ar.success
Truthy(s) == s = "True"

(***************************************************************************)
(* Pages.  A page is (display function, retreat flag); the display         *)
(* function of a page whose package list has a single option returns the   *)
(* inactive Outcome on every call (PackageSelector.display).               *)
(***************************************************************************)
Page(retreat, inactive) == [retreat |-> retreat, inactive |-> inactive]

Pages == {Page(r, i) : r \in BOOLEAN, i \in BOOLEAN}

\* PackageSelector.display when inactive_screen is set
InactiveOutcome == ActionResult("None", FALSE, TRUE, FALSE)

\* The page list add_ui_pages builds (without the optional download page):
\* the retreat flags of lines 411-440; only the package selector (index 4)
\* can be inactive.
UiFlags == <<FALSE, TRUE, TRUE, FALSE, TRUE, TRUE, TRUE, TRUE, TRUE, TRUE,
             FALSE, TRUE, TRUE, TRUE, TRUE, TRUE, TRUE, TRUE, TRUE>>

add_ui_pages(pkgInactive) ==
    [i \in 1..Len(UiFlags) |-> Page(UiFlags[i], pkgInactive /\ i = 5)]

\* The Outcomes the display function of page i (0-based) can return.
\* The first page is the license page and the last one the confirm window
\* (add_ui_pages), whose success Outcomes always carry a map.
PageOutcomes(its, i) ==
    IF its[i + 1].inactive
    THEN {InactiveOutcome}
    ELSE {ActionResult("True", FALSE, FALSE, y) : y \in BOOLEAN}
         \cup {ActionResult("False", n, FALSE, FALSE) : n \in BOOLEAN}
         \cup {ActionResult("False", FALSE, FALSE, TRUE)}
         \cup (IF i < Len(its) - 1
               THEN {ActionResult("True", TRUE, FALSE, FALSE)}
               ELSE {})

PageLists ==
    {its \in UNION {[1..n -> Pages] : n \in 1..MaxPages} : ~its[1].inactive}
    \cup {add_ui_pages(b) : b \in BOOLEAN}

(***************************************************************************)
(* IsoConfig.configure, the loop of lines 296-330                          *)
(***************************************************************************)

\* mutant: the inactive rewrite is missing
InactiveRewrite_Missing(a, gn) == a

\* lines 307-308: an inactive Outcome takes the current direction as its
\* success flag
InactiveRewrite(a, gn) ==
    IF ~a.isNone /\ a.inactive_screen
    THEN [a EXCEPT !.success = gn]
    ELSE a

\* lines 325-326: while index >= 0 and items[index][1] is False: index -= 1
RECURSIVE SkipBack(_, _)
SkipBack(its, i) ==
    IF i >= 0 /\ its[i + 1].retreat = FALSE
    THEN SkipBack(its, i - 1)
    ELSE i

\* mutant: the scan starts at the failing page itself
Retreat_FromSelf(its, i) ==
    LET j == SkipBack(its, i)
    IN IF j < 0 THEN 0 ELSE j

\* mutant: the retreat gate is not consulted
Retreat_Ungated(its, i) == IF i - 1 < 0 THEN 0 ELSE i - 1

\* lines 324-328
Retreat(its, i) ==
    LET j == SkipBack(its, i - 1)
    IN IF j < 0 THEN 0 ELSE j

\* mutant: the retreat gate is applied to forward moves as well
Advance_Gated(its, i) ==
    IF i + 1 < Len(its) /\ ~its[i + 2].retreat THEN i + 2 ELSE i + 1

\* line 313
Advance(its, i) == i + 1

\* mutant: the confirmation payload is not read
Finish_IgnoreYes(a) == "done"

\* lines 314-322, once index == len(items): break on yes, else exit(0)
Finish(a) == IF a.yes THEN "done" ELSE "exited"

\* lines 312-328: the index the loop moves to on the Outcome ar
ControllerMove(its, i, a) ==
    IF Truthy(a.success) THEN Advance(its, i) ELSE Retreat(its, i)

WizIdle ==
    /\ items = <<Page(TRUE, FALSE)>>
    /\ index = 0
    /\ go_next = "True"
    /\ wpc = "idle"
    /\ ar = NoResult
    /\ arRaw = NoResult
    /\ lastIndex = -1
    /\ prevGoNext = "True"

WizInit ==
    /\ items \in PageLists
    /\ index = 0
    /\ go_next = "True"
    /\ wpc = "loop"
    /\ ar = NoResult
    /\ arRaw = NoResult
    /\ lastIndex = -1
    /\ prevGoNext = "True"

\* one iteration of the while loop: invoke items[index][0]() and move
ConfigureStep(raw) ==
    LET a == InactiveRewrite(raw, go_next)
    IN /\ wpc = "loop"
       /\ arRaw' = raw
       /\ ar' = a
       /\ lastIndex' = index
       /\ prevGoNext' = go_next
       /\ go_next' = a.success
       /\ items' = items
       /\ UNCHANGED notWiz
       /\ IF Truthy(a.success)
          THEN /\ index' = Advance(items, index)
               /\ IF index' = Len(items)
                  THEN wpc' = Finish(a)
                  ELSE wpc' = "loop"
          ELSE /\ index' = Retreat(items, index)
               /\ wpc' = "loop"

WizNext ==
    /\ wpc = "loop"
    /\ \E raw \in PageOutcomes(items, index) : ConfigureStep(raw)

(***************************************************************************)
(* Scrollbar thumb arithmetic (Menu.__init__ lines 92-107, TextPane.__init__*)
(* lines 62-68)                                                            *)
(***************************************************************************)

\* int(round(a / float(b))) for a >= 0, b > 0: Python 3 rounds halves to
\* the even neighbour
PyRound(a, b) ==
    LET q == a \div b
        r == a % b
    IN IF 2 * r < b THEN q
       ELSE IF 2 * r > b THEN q + 1
       ELSE IF q % 2 = 0 THEN q ELSE q + 1

\* mutant: the correction passes leave the thumb as rounded
Correct_Skipped(f, h, n, i) == f

\* one pass of "for i in [1, 2]": lines 104-105 / 67-68
Correct(f, h, n, i) ==
    IF (n - h) >= i /\ (h - f) = (i - 1) THEN f - 1 ELSE f

\* Menu.__init__ lines 100-105
Filled(h, n) ==
    LET f0 == PyRound(h * h, n)
        f1 == IF f0 = 0 THEN f0 + 1 ELSE f0
        f2 == Correct(f1, h, n, 1)
    IN Correct(f2, h, n, 2)

\* TextPane.__init__ lines 63-68 (num_items > 0: read_file never leaves
\* self.lines empty)
TextPaneFilled(h, n) ==
    LET f0 == IF n > 0 THEN PyRound(h * h, n) ELSE 0
        f1 == IF f0 = 0 /\ n > 0 THEN 1 ELSE f0
        f2 == Correct(f1, h, n, 1)
    IN Correct(f2, h, n, 2)

\* Menu.__init__ lines 82-85
MenuHeight(height, n) == IF height = 0 \/ height > n THEN n ELSE height

\* lines 93 / 62
ShowScroll(h, n) == n > h

ThumbIdle ==
    /\ th_widget = "none"
    /\ th_num_items = 1
    /\ th_height = 1
    /\ th_built = FALSE
    /\ th_show_scroll = FALSE
    /\ th_filled = 0

\* the arguments of the two constructors: a Menu gets a non-empty item list
\* and a height >= 0 that is normalised (lines 82-85); a TextPane gets
\* height > 0, so text_height = height - 2 >= -1, and has at least one line
ThumbInit ==
    /\ th_widget \in {"menu", "textpane"}
    /\ th_num_items \in 1..MaxThumbItems
    /\ IF th_widget = "menu"
       THEN th_height \in {MenuHeight(h, th_num_items) : h \in 0..MaxThumbItems}
       ELSE th_height \in (-1)..MaxThumbItems
    /\ th_built = FALSE
    /\ th_show_scroll = FALSE
    /\ th_filled = 0

MenuConstruct ==
    /\ th_widget = "menu" /\ ~th_built
    /\ th_built' = TRUE
    /\ th_show_scroll' = ShowScroll(th_height, th_num_items)
    /\ th_filled' = Filled(th_height, th_num_items)
    /\ UNCHANGED <<th_widget, th_num_items, th_height>>
    /\ UNCHANGED notThumb

TextPaneConstruct ==
    /\ th_widget = "textpane" /\ ~th_built
    /\ th_built' = TRUE
    /\ th_show_scroll' = ShowScroll(th_height, th_num_items)
    /\ th_filled' = TextPaneFilled(th_height, th_num_items)
    /\ UNCHANGED <<th_widget, th_num_items, th_height>>
    /\ UNCHANGED notThumb

ThumbNext == MenuConstruct \/ TextPaneConstruct

(***************************************************************************)
(* Menu (menu.py): construction and navigate                               *)
(***************************************************************************)

\* mutant: the upper clamp is off by one
ClampPosition_OffByOne(p, n) ==
    IF p < 0 THEN 0 ELSE IF p > n THEN n - 1 ELSE p

\* lines 179-182
ClampPosition(p, n) ==
    IF p < 0 THEN 0 ELSE IF p >= n THEN n - 1 ELSE p

\* mutant: the window is not moved up when the focus rises above it
Scroll_NoUp(p, head, h) ==
    IF p >= head + h THEN p - h + 1 ELSE head

\* mutant: the window follows the focus even while the focus is visible
Scroll_FollowsFocus(p, head, h) ==
    IF p >= head + h THEN p - h + 1 ELSE p

\* lines 184-187
Scroll(p, head, h) ==
    LET h1 == IF p >= head + h THEN p - h + 1 ELSE head
    IN IF p < h1 THEN p ELSE h1

\* mutant: the track is split by rounding alone, without the corrections
\* of lines 210-215
render_scroll_bar_NoRemainder(head, h, n, f) ==
    LET remaining_down == n - h - head
        up0 == PyRound(head * h, n)
        down0 == h - up0 - f
    IN IF remaining_down = 0 /\ down0 # 0
       THEN [up |-> up0 + down0, down |-> 0]
       ELSE [up |-> up0, down |-> down0]

\* Menu.render_scroll_bar lines 205-218 (TextPane.render_scroll_bar lines
\* 175-188 are the same statements): the cells above and below the thumb
render_scroll_bar(head, h, n, f) ==
    LET remaining_above == head
        remaining_down == n - h - head
        up0 == PyRound(remaining_above * h, n)
        down0 == h - up0 - f
        c1 == up0 = 0 /\ remaining_above > 0
        up1 == IF c1 THEN up0 + 1 ELSE up0
        down1 == IF c1 THEN down0 - 1 ELSE down0
        c2 == down1 = 0 /\ remaining_down > 0
        up2 == IF c2 THEN up1 - 1 ELSE up1
        down2 == IF c2 THEN down1 + 1 ELSE down1
        c3 == remaining_down = 0 /\ down2 # 0
    IN [up |-> IF c3 THEN up2 + down2 ELSE up2,
        down |-> IF c3 THEN 0 ELSE down2]

\* lines 220-225: the rows the three loops address, top to bottom
BarRows(up, f, down) ==
    [i \in 1..up |-> i - 1]
    \o [i \in 1..f |-> (i - 1) + up]
    \o [i \in 1..down |-> (i - 1) + up + f]

\* addch / addstr on a row that is not one of the h rows of the menu's
\* window (line 120) raises curses.error, which lines 228-231 re-raise
RowsRaise(rows, h) ==
    \E i \in 1..Len(rows) : rows[i] < 0 \/ rows[i] >= h

\* refresh lines 245-254: the item indices that are drawn
DrawnItems(head, h, n) ==
    {i \in 0..(n - 1) : ~(i < head \/ i > head + h - 1)}

\* nothing has been drawn yet
NotRendered ==
    [kind |-> "off", head |-> 0, position |-> 0, items |-> {},
     up |-> 0, filled |-> 0, down |-> 0, rows |-> <<>>, raised |-> FALSE]

MenuIdle ==
    /\ m_rendered = NotRendered
    /\ m_num_items = 1
    /\ m_height = 1
    /\ m_position = 0
    /\ m_head_position = 0
    /\ m_filled = 0
    /\ m_show_scroll = FALSE
    /\ m_n = 0
    /\ m_before = 0
    /\ m_before_head = 0
    /\ m_calls = -1

\* Menu.__init__ lines 65-107: any non-empty item list, any height >= 0,
\* any valid default_selected
MenuInit ==
    /\ m_num_items \in 1..MaxItems
    /\ \E height \in 0..(MaxItems + 1) :
          m_height = MenuHeight(height, m_num_items)
    /\ m_position \in 0..(m_num_items - 1)
    /\ m_head_position = 0
    /\ m_filled = Filled(m_height, m_num_items)
    /\ m_show_scroll = ShowScroll(m_height, m_num_items)
    /\ m_n = 0
    /\ m_before = m_position
    /\ m_before_head = 0
    /\ m_calls = 0
    /\ m_rendered = NotRendered

\* Menu.navigate(n), lines 177-187
navigate(n) ==
    /\ m_calls >= 0
    /\ m_position' = ClampPosition(m_position + n, m_num_items)
    /\ m_head_position' = Scroll(m_position', m_head_position, m_height)
    /\ m_n' = n
    /\ m_before' = m_position
    /\ m_before_head' = m_head_position
    /\ m_calls' = IF m_calls < 2 THEN m_calls + 1 ELSE 2
    /\ UNCHANGED <<m_num_items, m_height, m_filled, m_show_scroll,
                   m_rendered>>
    /\ UNCHANGED notMenu

\* Menu.refresh(), lines 243-260: the visible items, then the scroll bar
\* (render_scroll_bar returns at once without show_scroll, lines 199-200)
refresh ==
    /\ m_calls >= 0
    /\ LET b == render_scroll_bar(m_head_position, m_height, m_num_items,
                                  m_filled)
           rows == IF m_show_scroll
                   THEN BarRows(b.up, m_filled, b.down) ELSE <<>>
       IN m_rendered' =
            [kind |-> IF m_show_scroll THEN "bar" ELSE "items",
             head |-> m_head_position,
             position |-> m_position,
             items |-> DrawnItems(m_head_position, m_height, m_num_items),
             up |-> IF m_show_scroll THEN b.up ELSE 0,
             filled |-> IF m_show_scroll THEN m_filled ELSE 0,
             down |-> IF m_show_scroll THEN b.down ELSE 0,
             rows |-> rows,
             raised |-> RowsRaise(rows, m_height)]
    /\ UNCHANGED <<m_num_items, m_height, m_position, m_head_position,
                   m_filled, m_show_scroll, m_n, m_before, m_before_head,
                   m_calls>>
    /\ UNCHANGED notMenu

MenuNext ==
    \/ \E n \in (-MaxDelta)..MaxDelta : navigate(n)
    \/ refresh

(***************************************************************************)
(* Window (window.py)                                                      *)
(***************************************************************************)

\* An Outcome as the Window reads it: the success flag, and of the payload
\* whether it is None and the keys goNext, goBack, direction (0: absent),
\* diskIndex (present or not) and error.
Outcome(success, isNone, goNext, goBack, direction, diskIndex, error) ==
    [success |-> success, isNone |-> isNone, goNext |-> goNext,
     goBack |-> goBack, direction |-> direction, diskIndex |-> diskIndex,
     error |-> error]

\* ActionResult(True, None), ActionResult(False, None)
SuccessNone == Outcome(TRUE, TRUE, FALSE, FALSE, 0, FALSE, FALSE)
FailureNone == Outcome(FALSE, TRUE, FALSE, FALSE, 0, FALSE, FALSE)

\* ActionResult(False, {"error": str(e)})
ErrorOutcome == Outcome(FALSE, FALSE, FALSE, FALSE, 0, FALSE, TRUE)

\* what do_action returned: nothing yet, an Outcome, or Python's None
NotReturned == [kind |-> "none", val |-> FailureNone]
Returned(o) == [kind |-> "result", val |-> o]
ReturnedNone == [kind |-> "pynone", val |-> FailureNone]

\* The Outcomes an action panel (Menu.do_action, TextPane.do_action)
\* returns: on Enter the handler's success Outcome, on Tab failure with
\* None or {diskIndex}, on Left/Right of a non-tab-navigable list failure
\* with {direction} or {diskIndex, direction}, a handler's {goBack}
\* failure (TextPane), and the {error} failure of the except clause.
PanelOutcomes ==
    {SuccessNone,
     Outcome(TRUE, FALSE, TRUE, FALSE, 0, FALSE, FALSE),
     Outcome(TRUE, FALSE, FALSE, FALSE, 0, TRUE, FALSE),
     Outcome(TRUE, FALSE, FALSE, FALSE, 0, FALSE, FALSE),
     FailureNone,
     Outcome(FALSE, FALSE, FALSE, FALSE, 0, TRUE, FALSE),
     Outcome(FALSE, FALSE, FALSE, TRUE, 0, FALSE, FALSE),
     ErrorOutcome}
    \cup {Outcome(FALSE, FALSE, FALSE, FALSE, d, k, FALSE) :
            d \in {-1, 1}, k \in BOOLEAN}

\* What a button callback items[i][1]() does: return success (with None or
\* with a {goNext} payload), return failure with {goBack}, return failure
\* with another payload, or raise.
CallbackKinds == {"ok", "okGoNext", "goBack", "fail", "raise"}

CallbackResult(cb) ==
    CASE cb = "ok" -> SuccessNone
      [] cb = "okGoNext" -> Outcome(TRUE, FALSE, TRUE, FALSE, 0, FALSE, FALSE)
      [] cb = "goBack" -> Outcome(FALSE, FALSE, FALSE, TRUE, 0, FALSE, FALSE)
      [] OTHER -> Outcome(FALSE, FALSE, FALSE, FALSE, 0, FALSE, FALSE)

\* the behaviours of items[pos - 1][1]: next_function always returns
\* ActionResult(True, None)
Callbacks(pos) ==
    IF w_has_next /\ pos = w_items THEN {"ok"} ELSE CallbackKinds

HasKey(a, present) == ~a.isNone /\ present

\* mutant: the Back sentinel is not tested before the callback is looked up
IsBack_Never(pos) == FALSE

\* lines 184 and 301: self.position == 0
IsBack(pos) == pos = 0

\* Window.refresh lines 398-411: the new self.position
RefreshPosition(pos, n) ==
    LET p0 == pos + n
        p1 == IF w_can_go_back
              THEN IF p0 < 0 THEN 0
                   ELSE IF w_items > 0 /\ p0 > w_items THEN w_items ELSE p0
              ELSE IF p0 < 0 THEN 0
                   ELSE IF w_items > 0 /\ p0 >= w_items THEN w_items - 1 ELSE p0
    IN IF w_items = 0 /\ ~w_can_go_next THEN 0 ELSE p1

\* a button of the button row: Back, the item items[index], or none
BackButton == [kind |-> "back", index |-> 0]
ItemButton(i) == [kind |-> "item", index |-> i]
NoButton == [kind |-> "none", index |-> 0]

\* Window.refresh(n, True) lines 413-447: the button drawn highlighted
Highlighted(pos) ==
    IF w_can_go_back
    THEN IF pos = 0 THEN BackButton
         ELSE IF pos <= w_items THEN ItemButton(pos - 1) ELSE NoButton
    ELSE IF pos < w_items THEN ItemButton(pos) ELSE NoButton

\* lines 301-316 (and 184-201): the button Enter acts on, items[position - 1]
\* unless position == 0; NoButton stands for the IndexError
EnterTarget(pos) ==
    IF IsBack(pos) THEN BackButton
    ELSE IF pos - 1 < w_items THEN ItemButton(pos - 1) ELSE NoButton

\* what one step of do_action does besides moving self.position
Step(pc, ret, hideWindow, hidePanel, cbs, cb, helper) ==
    [pc |-> pc, ret |-> ret, hideWindow |-> hideWindow, hidePanel |-> hidePanel,
     cbs |-> cbs, cb |-> cb, helper |-> helper, pre |-> 0, first |-> "none"]

\* lines 194-221 of update_menu: forward diskIndex to menu_helper, invoke
\* items[position - 1][1]() and translate its Outcome.  A failure without
\* goBack falls off the end of the function, which returns None; an
\* IndexError or an exception of the callback ends in the except clause.
CallButton(pos, a, cb, before) ==
    LET helper == HasKey(a, a.diskIndex) /\ w_menu_helper
        s == IF pos - 1 >= w_items
             THEN Step("idle", Returned(ErrorOutcome), FALSE, FALSE, before,
                       "raise", helper)
             ELSE CASE cb \in {"ok", "okGoNext"} ->
                         Step("idle", Returned(CallbackResult(cb)), TRUE, TRUE,
                              before + 1, cb, helper)
                    [] cb = "goBack" ->
                         Step("idle", Returned(FailureNone), TRUE, TRUE,
                              before + 1, cb, helper)
                    [] cb = "fail" ->
                         Step("idle", ReturnedNone, FALSE, FALSE, before + 1,
                              cb, helper)
                    [] OTHER ->
                         Step("idle", Returned(ErrorOutcome), FALSE, FALSE,
                              before + 1, cb, helper)
    IN [s EXCEPT !.pre = IF helper THEN before ELSE 0]

\* mutant: the Back sentinel is tested before the goNext tag
update_menu_BackFirst(a, pos, cb, before) ==
    IF IsBack(pos)
    THEN Step("idle", Returned(FailureNone), TRUE, TRUE, before, "none", FALSE)
    ELSE IF HasKey(a, a.goNext)
    THEN Step("idle", Returned(SuccessNone), FALSE, FALSE, before, "none", FALSE)
    ELSE CallButton(pos, a, cb, before)

\* Window.update_menu(action_result), lines 178-221
update_menu(a, pos, cb, before) ==
    IF HasKey(a, a.goNext)
    THEN Step("idle", Returned(SuccessNone), FALSE, FALSE, before, "none", FALSE)
    ELSE IF IsBack(pos)
    THEN Step("idle", Returned(FailureNone), TRUE, TRUE, before, "none", FALSE)
    ELSE CallButton(pos, a, cb, before)

\* mutant: every Window re-enters its panel at the top of the loop
LoopPc_PanelAlways == "panel_rt"

\* the top of the while loop, lines 274-297: the call do_action blocks in
LoopPc == IF w_read_text THEN "panel_rt" ELSE "keys"

\* mutant: Tab re-entry hands a panel success to update_menu like the
\* other paths
OnPanelSuccess_TabToo(via, a, pos, cb) ==
    IF w_items > 0
    THEN update_menu(a, pos, cb, 0)
    ELSE Step("idle", Returned(a), TRUE, FALSE, 0, "none", FALSE)

\* a panel success inside the loop: lines 280-286, 338-342, 351-357, 369-375
OnPanelSuccess(via, a, pos, cb) ==
    IF via # "tab" /\ w_items > 0
    THEN update_menu(a, pos, cb, 0)
    ELSE Step("idle", Returned(a), TRUE, FALSE, 0, "none", FALSE)

\* the first panel success, lines 249-261: goNext short-circuits; otherwise
\* items[position - 1][1]() is invoked (its Outcome dropped), then
\* update_menu if the Window has items
OnFirstSuccess(a, pos, cb1, cb2) ==
    IF HasKey(a, a.goNext)
    THEN Step("idle", Returned(SuccessNone), FALSE, FALSE, 0, "none", FALSE)
    ELSE IF pos # 0 /\ pos - 1 >= w_items
    THEN Step("idle", Returned(ErrorOutcome), FALSE, FALSE, 0, "raise", FALSE)
    ELSE IF pos # 0 /\ cb1 = "raise"
    THEN [Step("idle", Returned(ErrorOutcome), FALSE, FALSE, 1, "raise", FALSE)
            EXCEPT !.first = cb1]
    ELSE IF w_items > 0
    THEN [update_menu(a, pos, cb2, IF pos # 0 THEN 1 ELSE 0)
            EXCEPT !.first = IF pos # 0 THEN cb1 ELSE "none"]
    ELSE Step("idle", Returned(a), TRUE, FALSE, 0, "none", FALSE)

\* Enter in the button row, lines 300-330
OnEnter(a, pos, cb) ==
    IF IsBack(pos)
    THEN Step("idle", Returned(FailureNone), TRUE, TRUE, 0, "none", FALSE)
    ELSE LET s == CallButton(pos, a, cb, 0)
         IN IF s.ret.kind = "pynone"
            THEN [s EXCEPT !.pc = "keys", !.ret = NotReturned]
            ELSE s

\* mutant: an exception of the panel leaves do_action
OnPanelRaise_Propagates ==
    Step("raised", NotReturned, FALSE, FALSE, 0, "none", FALSE)

\* lines 381-384: an exception raised inside action_panel.do_action() (or
\* action_panel.navigate) is caught by the except clause of do_action
OnPanelRaise ==
    Step("idle", Returned(ErrorOutcome), FALSE, FALSE, 0, "none", FALSE)

\* curses.panel: the panels of the Window
Surfaces == {"shadow", "content", "text"}

\* panel.hide(): the panel leaves the stack (no effect on a hidden panel)
StackHide(z, p) == SelectSeq(z, LAMBDA q : q # p)

\* panel.top() and panel.show(): the panel is put on top of the stack,
\* whether or not it was visible (ncurses top_panel is show_panel)
StackTop(z, p) == Append(StackHide(z, p), p)

\* the visibility of the three panels in the stack z
Visible(z) == [p \in Surfaces |-> \E i \in 1..Len(z) : z[i] = p]

\* mutant: the shadow panel is left on screen
HidePanels_KeepsShadow(z) == StackHide(StackHide(z, "content"), "text")

\* hide_window lines 494-496
HidePanels(z) ==
    StackHide(StackHide(StackHide(z, "shadow"), "content"), "text")

\* show_window lines 465-473: top() of the three panels, then show()
ShowPanels(z) ==
    LET t == StackTop(StackTop(StackTop(z, "shadow"), "content"), "text")
    IN StackTop(StackTop(StackTop(t, "shadow"), "content"), "text")

WinIdle ==
    /\ w_can_go_back = FALSE /\ w_can_go_next = FALSE
    /\ w_items = 0 /\ w_has_next = FALSE
    /\ w_menu_helper = FALSE /\ w_action_panel = FALSE
    /\ w_tab_enabled = FALSE /\ w_read_text = FALSE
    /\ w_position = 0
    /\ w_shown = [p \in {"shadow", "content", "text"} |-> FALSE]
    /\ w_z = <<>> /\ w_z_before = <<>>
    /\ w_panel_shown = FALSE
    /\ w_pc = "off"
    /\ w_ar = FailureNone /\ w_via = "none"
    /\ w_ret = NotReturned
    /\ w_event = "none" /\ w_event_pos = 0
    /\ w_cbs = 0 /\ w_cb_last = "none" /\ w_helper = FALSE
    /\ w_pre = 0 /\ w_cb_first = "none"

\* Window.__init__, lines 62-129, and update_next_item, lines 131-141
WinInit ==
    \E items_n \in 0..MaxButtons, position \in 0..MaxButtons,
       tab_enabled \in BOOLEAN :
      /\ w_can_go_back \in BOOLEAN
      /\ w_can_go_next \in BOOLEAN
      /\ w_menu_helper \in BOOLEAN
      /\ w_action_panel \in BOOLEAN
      /\ w_read_text \in BOOLEAN
      /\ w_has_next = (w_can_go_next /\ w_can_go_back)
      /\ w_items = IF w_has_next THEN items_n + 1 ELSE items_n
      /\ w_position = IF w_has_next THEN 1 ELSE position
      /\ w_tab_enabled = IF w_has_next THEN FALSE ELSE tab_enabled
      /\ w_z = HidePanels(<<"content", "text", "shadow">>)
      /\ w_z_before = <<"content", "text", "shadow">>
      /\ w_shown = Visible(w_z)
      /\ w_panel_shown = FALSE
      /\ w_pc = "idle"
      /\ w_ar = FailureNone /\ w_via = "none"
      /\ w_ret = NotReturned
      /\ w_event = "none" /\ w_event_pos = 0
      /\ w_cbs = 0 /\ w_cb_last = "none" /\ w_helper = FALSE
      /\ w_pre = 0 /\ w_cb_first = "none"

WinConfig == <<w_can_go_back, w_can_go_next, w_items, w_has_next,
               w_menu_helper, w_action_panel, w_tab_enabled, w_read_text>>

\* show_window, lines 464-478 / hide_window, lines 494-498
AllShown == [p \in {"shadow", "content", "text"} |-> TRUE]
AllHidden == [p \in {"shadow", "content", "text"} |-> FALSE]

\* the effect of a step on the state of the Window (the position of a
\* Window without items and without Back is capped at MaxPosition)
ApplyWin(s, pos, event) ==
    /\ pos <= MaxPosition
    /\ w_pc' = s.pc
    /\ w_ret' = s.ret
    /\ w_position' = pos
    /\ w_z' = IF s.hideWindow THEN HidePanels(w_z) ELSE w_z
    /\ w_shown' = Visible(w_z')
    /\ w_z_before' = w_z
    /\ w_panel_shown' = IF s.hidePanel THEN FALSE ELSE w_panel_shown
    /\ w_event' = event
    /\ w_event_pos' = w_position
    /\ w_cbs' = s.cbs
    /\ w_cb_last' = s.cb
    /\ w_helper' = s.helper
    /\ w_pre' = s.pre
    /\ w_cb_first' = s.first
    /\ UNCHANGED WinConfig

\* a step of a Window taken by itself
Apply(s, pos, event) == ApplyWin(s, pos, event) /\ UNCHANGED notWin

Continue(pc) == Step(pc, NotReturned, FALSE, FALSE, 0, "none", FALSE)

\* mutant: show_window leaves self.position as the last run left it
show_window_KeepsPosition(pos) == pos

\* show_window lines 477-478: the position a run starts from
show_window(pos) == IF w_can_go_next THEN 1 ELSE pos

\* do_action lines 233-245: show the window, refresh, and call the panel
DoActionBegin ==
    /\ w_pc = "idle"
    /\ LET p0 == show_window(w_position)
           p1 == RefreshPosition(p0, 0)
       IN /\ w_position' = p1
          /\ w_z' = ShowPanels(w_z)
          /\ w_shown' = Visible(w_z')
    /\ w_z_before' = w_z
          /\ IF w_action_panel
             THEN /\ w_pc' = "panel"
                  /\ w_ret' = NotReturned
                  /\ w_panel_shown' = TRUE
             ELSE /\ w_pc' = "idle"
                  /\ w_ret' = Returned(ErrorOutcome)
                  /\ w_panel_shown' = w_panel_shown
    /\ w_ar' = FailureNone /\ w_via' = "none"
    /\ w_event' = "start" /\ w_event_pos' = w_position
    /\ w_cbs' = 0 /\ w_cb_last' = "none" /\ w_helper' = FALSE
    /\ w_pre' = 0 /\ w_cb_first' = "none"
    /\ UNCHANGED WinConfig

DoActionStart == DoActionBegin /\ UNCHANGED notWin

\* lines 246-273: what do_action makes of the Outcome a of the first call
\* of the panel: the step, the new position and the event
OnFirstReturn(a, pos, cb1, cb2) ==
    IF a.success
    THEN [s |-> [OnFirstSuccess(a, pos, cb1, cb2) EXCEPT !.hidePanel = TRUE],
          pos |-> pos, event |-> "panel_success"]
    ELSE LET p1 == IF ~w_tab_enabled /\ HasKey(a, a.direction # 0)
                   THEN RefreshPosition(pos, a.direction)
                   ELSE pos
         IN IF HasKey(a, a.goBack)
            THEN [s |-> Step("idle", Returned(a), TRUE, TRUE, 0, "none", FALSE),
                  pos |-> p1, event |-> "panel_failure"]
            ELSE [s |-> Continue(LoopPc), pos |-> RefreshPosition(p1, 0),
                  event |-> "panel_failure"]

\* lines 348-360, 366-378: the same for the call after Up or Down
OnArrowReturn(a, pos, cb) ==
    IF a.success
    THEN [s |-> [OnPanelSuccess("arrow", a, pos, cb) EXCEPT !.hidePanel = TRUE],
          pos |-> pos, event |-> "panel_success"]
    ELSE [s |-> Continue(LoopPc),
          pos |-> IF HasKey(a, a.direction # 0)
                  THEN RefreshPosition(pos, a.direction)
                  ELSE pos,
          event |-> "panel_failure"]

\* the first action_panel.do_action() returns: lines 245-273.  A panel that
\* returns success has hidden itself (Menu.do_action line 311,
\* TextPane.do_action line 276).
FirstPanelReturns ==
    /\ w_pc = "panel"
    /\ \E a \in PanelOutcomes :
         /\ w_ar' = a /\ w_via' = "first"
         /\ \E cb1 \in Callbacks(w_position), cb2 \in Callbacks(w_position) :
              LET r == OnFirstReturn(a, w_position, cb1, cb2)
              IN Apply(r.s, r.pos, r.event)

\* action_panel.do_action(returned=True, go_back=...) returns: lines 277-295
ReadTextPanelReturns ==
    /\ w_pc = "panel_rt"
    /\ \E a \in PanelOutcomes :
         /\ w_ar' = a /\ w_via' = "read_text"
         /\ IF a.success
            THEN \E cb \in Callbacks(w_position) :
                   LET s == OnPanelSuccess("read_text", a, w_position, cb)
                      IN Apply([s EXCEPT !.hidePanel = TRUE], w_position,
                               "panel_success")
            ELSE IF HasKey(a, a.goBack)
            THEN Apply(Step("idle", Returned(a), TRUE, TRUE, 0, "none", FALSE),
                       w_position, "panel_failure")
            ELSE Apply(Continue(LoopPc),
                       IF HasKey(a, a.direction # 0)
                       THEN RefreshPosition(w_position, a.direction)
                       ELSE w_position,
                       "panel_failure")

\* Enter in the button row: lines 300-330
KeyEnter ==
    /\ w_pc = "keys"
    /\ \E cb \in Callbacks(w_position) :
         Apply(OnEnter(w_ar, w_position, cb), w_position, "enter")
    /\ UNCHANGED <<w_ar, w_via>>

\* Tab in the button row: lines 331-335
KeyTab ==
    /\ w_pc = "keys"
    /\ IF ~w_tab_enabled
       THEN Apply(Continue("keys"), w_position, "key")
       ELSE Apply(Continue("panel_tab"), RefreshPosition(w_position, 0), "key")
    /\ UNCHANGED <<w_ar, w_via>>

\* the panel returns after Tab: lines 335-344
TabPanelReturns ==
    /\ w_pc = "panel_tab"
    /\ \E a \in PanelOutcomes :
         /\ w_ar' = a /\ w_via' = "tab"
         /\ IF a.success
            THEN LET s == OnPanelSuccess("tab", a, w_position, "ok")
                 IN Apply([s EXCEPT !.hidePanel = TRUE], w_position,
                          "panel_success")
            ELSE Apply(Continue(LoopPc), RefreshPosition(w_position, 0),
                       "panel_failure")

\* Up/Left (n = -1) and Down/Right (n = 1) in the button row: lines 345-347,
\* 361-365, 379-380.  Up and Down of a window that is not tab-navigable
\* move the panel's focus and re-enter the panel; the other keys move the
\* button focus.
KeyArrow ==
    /\ w_pc = "keys"
    /\ \E n \in {-1, 1}, vertical \in BOOLEAN :
         IF vertical /\ ~w_tab_enabled
         THEN Apply(Continue("panel_arrow"), w_position, "key")
         ELSE Apply(Continue("keys"), RefreshPosition(w_position, n), "key")
    /\ UNCHANGED <<w_ar, w_via>>

\* the panel returns after Up or Down: lines 348-360, 366-378
ArrowPanelReturns ==
    /\ w_pc = "panel_arrow"
    /\ \E a \in PanelOutcomes :
         /\ w_ar' = a /\ w_via' = "arrow"
         /\ \E cb \in Callbacks(w_position) :
              LET r == OnArrowReturn(a, w_position, cb)
              IN Apply(r.s, r.pos, r.event)

\* a call of the panel (lines 245, 277, 335, 348, 366) raises instead of
\* returning: action_result keeps the value of the last return
PanelRaises ==
    /\ w_pc \in {"panel", "panel_rt", "panel_tab", "panel_arrow"}
    /\ Apply(OnPanelRaise, w_position, "panel_raise")
    /\ UNCHANGED <<w_ar, w_via>>

\* the histories of a step that is not part of do_action: what the last
\* do_action returned is no longer the last thing the Window did
NoStep(event) ==
    /\ w_event' = event /\ w_event_pos' = w_position
    /\ w_cbs' = 0 /\ w_cb_last' = "none" /\ w_helper' = FALSE
    /\ w_pre' = 0 /\ w_cb_first' = "none"
    /\ w_ret' = NotReturned /\ w_ar' = FailureNone /\ w_via' = "none"
    /\ UNCHANGED <<w_pc, w_panel_shown>>
    /\ UNCHANGED WinConfig
    /\ UNCHANGED notWin

\* a page calls show_window() itself, lines 457-484
ShowWindow ==
    /\ w_pc = "idle"
    /\ w_z' = ShowPanels(w_z)
    /\ w_shown' = Visible(w_z')
    /\ w_z_before' = w_z
    /\ w_position' = show_window(w_position)
    /\ NoStep("show")

\* a page calls hide_window() itself, lines 486-504
HideWindow ==
    /\ w_pc = "idle"
    /\ w_z' = HidePanels(w_z)
    /\ w_shown' = Visible(w_z')
    /\ w_z_before' = w_z
    /\ w_position' = w_position
    /\ NoStep("hide")

\* any other key in the button row is ignored
KeyOther ==
    /\ w_pc = "keys"
    /\ Apply(Continue("keys"), w_position, "key")
    /\ UNCHANGED <<w_ar, w_via>>

WinNext ==
    \/ DoActionStart
    \/ FirstPanelReturns
    \/ ReadTextPanelReturns
    \/ KeyEnter
    \/ KeyTab
    \/ TabPanelReturns
    \/ KeyArrow
    \/ ArrowPanelReturns
    \/ PanelRaises
    \/ ShowWindow
    \/ HideWindow
    \/ KeyOther

(***************************************************************************)
(* Menu.do_action (menu.py): the key loop of the list widget               *)
(***************************************************************************)

\* what do_action returned: an ActionResult with its success flag and, of
\* its payload, the handler Outcome it is (or "none"), diskIndex (-1:
\* absent), direction (0: absent) and error
RunResult(success, handler, diskIndex, direction, error) ==
    [kind |-> "result", success |-> success, handler |-> handler,
     diskIndex |-> diskIndex, direction |-> direction, error |-> error]

\* do_action has not returned
RunNotReturned ==
    [kind |-> "none", success |-> FALSE, handler |-> "none",
     diskIndex |-> -1, direction |-> 0, error |-> FALSE]

\* what an item handler items[i][1](arg) does: return a success Outcome
\* (two distinct ones), return a failure Outcome (two distinct ones), raise
HandlerKinds == {"ok", "okPayload", "fail", "failPayload", "raise"}

HandlerSucceeds(h) == h \in {"ok", "okPayload"}

\* mutant: the exception leaves do_action
Caught_Reraised == [RunNotReturned EXCEPT !.kind = "raised"]

\* the except clause, lines 371-374: ActionResult(False, {"error": str(e)})
Caught == RunResult(FALSE, "none", -1, 0, TRUE)

\* no handler was invoked
NoInvocation ==
    [n |-> 0, item |-> -1, kind |-> "none", set |-> {}, h |-> "none"]

\* lines 304-307 (and 341-344): the handler of the focused item is invoked
\* with self.selected_items in selector mode, else with the item's payload
\* items[position][2]
Invocation(h) ==
    [n |-> 1, item |-> r_position,
     kind |-> IF r_selector_menu THEN "set" ELSE "payload",
     set |-> IF r_selector_menu THEN r_selected_items ELSE {},
     h |-> h]

\* the loop goes on with nothing changed; refresh (line 298) shows the panel
Stay ==
    [ret |-> RunNotReturned, position |-> r_position,
     head |-> r_head_position, selected |-> r_selected_items,
     shown |-> TRUE, invoked |-> NoInvocation]

\* self.navigate(n) inside the loop, lines 177-187
RunNavigate(n) ==
    LET p == ClampPosition(r_position + n, r_num_items)
    IN [Stay EXCEPT !.position = p,
                    !.head = Scroll(p, r_head_position, r_height)]

\* mutant: the handler's Outcome is returned whether it succeeded or not
EnterStep_ReturnsAny(h) ==
    IF h = "raise" THEN Caught
    ELSE RunResult(HandlerSucceeds(h), h, -1, 0, FALSE)

\* lines 308-312: what Enter makes of the handler's Outcome
EnterStep(h) ==
    IF h = "raise" THEN Caught
    ELSE IF HandlerSucceeds(h) THEN RunResult(TRUE, h, -1, 0, FALSE)
    ELSE RunNotReturned

\* Enter, lines 303-312; a failure falls through the remaining tests
MenuOnEnter(h) ==
    [Stay EXCEPT !.ret = EnterStep(h),
                 !.shown = ~HandlerSucceeds(h),
                 !.invoked = Invocation(h)]

\* Space, lines 314-323: toggles the focused item in selector mode
MenuOnSpace ==
    IF r_selector_menu
    THEN [Stay EXCEPT !.selected =
            IF r_position \in r_selected_items
            THEN r_selected_items \ {r_position}
            ELSE r_selected_items \cup {r_position}]
    ELSE Stay

\* mutant: tab_enable is not consulted
TabPermitted_WithoutTabEnable == r_can_navigate_outside

\* lines 325-327
TabPermitted == r_can_navigate_outside /\ r_tab_enable

\* mutant: an early exit carries the first item, not the focused one
SavedSel_Never == IF r_save_sel THEN 0 ELSE -1

\* lines 331-333, 339-340, 352-354: the diskIndex of an early exit
SavedSel == IF r_save_sel THEN r_position ELSE -1

\* Tab, lines 325-333
MenuOnTab ==
    IF TabPermitted
    THEN [Stay EXCEPT !.ret = RunResult(FALSE, "none", SavedSel, 0, FALSE)]
    ELSE Stay

\* Left, lines 335-346: without tab_enable an early exit with direction -1,
\* before which (unless save_sel) the handler of the focused item is
\* invoked and its Outcome dropped
MenuOnLeft(h) ==
    IF ~r_tab_enable
    THEN IF r_save_sel
         THEN [Stay EXCEPT !.ret = RunResult(FALSE, "none", SavedSel, -1, FALSE)]
         ELSE [Stay EXCEPT !.ret = IF h = "raise" THEN Caught
                                   ELSE RunResult(FALSE, "none", -1, -1, FALSE),
                           !.invoked = Invocation(h)]
    ELSE RunNavigate(-1)

\* Right, lines 348-355
MenuOnRight ==
    IF ~r_tab_enable
    THEN [Stay EXCEPT !.ret = RunResult(FALSE, "none", SavedSel, 1, FALSE)]
    ELSE RunNavigate(1)

\* Up and Down, lines 335-336, 346 and 348-349, 355
MenuOnUp == RunNavigate(-1)
MenuOnDown == RunNavigate(1)

\* PageDown (dir = 1), PageUp (dir = -1), lines 357-365; Home, lines 367-370
MenuOnPage(dir) == RunNavigate(dir * r_height)
MenuOnHome == RunNavigate(-r_position)

RunIdle ==
    /\ r_num_items = 1 /\ r_height = 1
    /\ r_selector_menu = FALSE /\ r_can_navigate_outside = FALSE
    /\ r_save_sel = FALSE /\ r_tab_enable = FALSE
    /\ r_position = 0 /\ r_head_position = 0
    /\ r_selected_items = {}
    /\ r_shown = FALSE
    /\ r_pc = "off"
    /\ r_ret = RunNotReturned
    /\ r_key = "none"
    /\ r_before = [position |-> 0, head |-> 0, selected |-> {}]
    /\ r_invoked = NoInvocation

\* Menu.__init__, lines 65-125: any non-empty list of (text, handler,
\* payload) items, any height >= 0, any flags, any valid default_selected
RunInit ==
    /\ r_num_items \in 1..MaxRunItems
    /\ \E height \in 0..(MaxRunItems + 1) :
          r_height = MenuHeight(height, r_num_items)
    /\ r_selector_menu \in BOOLEAN
    /\ r_can_navigate_outside \in BOOLEAN
    /\ r_save_sel \in BOOLEAN
    /\ r_tab_enable \in BOOLEAN
    /\ r_position \in 0..(r_num_items - 1)
    /\ r_head_position = 0
    /\ r_selected_items = {}
    /\ r_shown = FALSE
    /\ r_pc = "idle"
    /\ r_ret = RunNotReturned
    /\ r_key = "none"
    /\ r_before = [position |-> r_position, head |-> 0, selected |-> {}]
    /\ r_invoked = NoInvocation

RunConfig == <<r_num_items, r_height, r_selector_menu, r_can_navigate_outside,
               r_save_sel, r_tab_enable>>

\* where do_action stands after a step
RunPc(ret) ==
    CASE ret.kind = "none" -> "loop"
      [] ret.kind = "result" -> "idle"
      [] OTHER -> "raised"

\* the effect of handling one key
RunApplyKey(key, st) ==
    /\ r_key' = key
    /\ r_before' = [position |-> r_position, head |-> r_head_position,
                    selected |-> r_selected_items]
    /\ r_ret' = st.ret
    /\ r_pc' = RunPc(st.ret)
    /\ r_position' = st.position
    /\ r_head_position' = st.head
    /\ r_selected_items' = st.selected
    /\ r_shown' = st.shown
    /\ r_invoked' = st.invoked
    /\ UNCHANGED RunConfig

\* a key handled by a Menu taken by itself
RunApply(key, st) == RunApplyKey(key, st) /\ UNCHANGED notRun

\* do_action is called: lines 296-299, refresh and block in getch
MenuDoAction ==
    /\ r_pc = "idle"
    /\ r_pc' = "loop"
    /\ r_ret' = RunNotReturned
    /\ r_shown' = TRUE
    /\ r_key' = "none"
    /\ r_before' = [position |-> r_position, head |-> r_head_position,
                    selected |-> r_selected_items]
    /\ r_invoked' = NoInvocation
    /\ UNCHANGED <<r_position, r_head_position, r_selected_items>>
    /\ UNCHANGED RunConfig
    /\ UNCHANGED notRun

MenuKeyEnter ==
    r_pc = "loop" /\ \E h \in HandlerKinds : RunApply("enter", MenuOnEnter(h))

MenuKeySpace == r_pc = "loop" /\ RunApply("space", MenuOnSpace)

MenuKeyTab == r_pc = "loop" /\ RunApply("tab", MenuOnTab)

MenuKeyLeft ==
    r_pc = "loop" /\ \E h \in HandlerKinds : RunApply("left", MenuOnLeft(h))

MenuKeyRight == r_pc = "loop" /\ RunApply("right", MenuOnRight)

MenuKeyUp == r_pc = "loop" /\ RunApply("up", MenuOnUp)

MenuKeyDown == r_pc = "loop" /\ RunApply("down", MenuOnDown)

MenuKeyPageDown == r_pc = "loop" /\ RunApply("npage", MenuOnPage(1))

MenuKeyPageUp == r_pc = "loop" /\ RunApply("ppage", MenuOnPage(-1))

MenuKeyHome == r_pc = "loop" /\ RunApply("home", MenuOnHome)

\* any other key: no test of lines 303-370 matches
MenuKeyOther == r_pc = "loop" /\ RunApply("other", Stay)

RunNext ==
    \/ MenuDoAction
    \/ MenuKeyEnter
    \/ MenuKeySpace
    \/ MenuKeyTab
    \/ MenuKeyLeft
    \/ MenuKeyRight
    \/ MenuKeyUp
    \/ MenuKeyDown
    \/ MenuKeyPageDown
    \/ MenuKeyPageUp
    \/ MenuKeyHome
    \/ MenuKeyOther

(***************************************************************************)
(* TextPane.do_action (textpane.py): the key loop of the text pane         *)
(***************************************************************************)

\* TextPane.navigate(n), lines 139-144: the new head_position
TextNavigate(head, n) ==
    IF tp_show_scroll
    THEN LET h == head + n
             top == tp_num_items - tp_text_height + 1
         IN IF h < 0 THEN 0 ELSE IF h > top THEN top ELSE h
    ELSE head

\* TextPane.navigate_menu(n), lines 158-162: the new menu_position
navigate_menu(pos, n) ==
    LET q == pos + n
    IN IF q < 0 THEN 0
       ELSE IF q >= tp_menu_items THEN tp_menu_items - 1 ELSE q

\* TextPane.refresh lines 210-213: the indices of the lines it draws
Rendered(head) ==
    {i \in 0..(tp_num_items - 1) :
        ~(i < head \/ i > head + tp_text_height - 1)}

\* what do_action returned: nothing yet, the Outcome of the handler h of
\* the focused button, or the error Outcome of the except clause
TextNotReturned == [kind |-> "none", handler |-> "none"]
TextHandled(h) == [kind |-> "handler", handler |-> h]
TextError == [kind |-> "error", handler |-> "none"]

\* mutant: Enter returns only a success of the handler, as the list does
TextOnEnter_OnlySuccess(h) ==
    IF h = "raise"
       \/ ~(tp_menu_position \in (-tp_menu_items)..(tp_menu_items - 1))
    THEN TextError
    ELSE IF HandlerSucceeds(h) THEN TextHandled(h) ELSE TextNotReturned

\* lines 269-274: Enter hides the pane and returns
\* menu_items[menu_position][1](); a failing index or a raising handler
\* ends in the except clause, lines 291-294
TextOnEnter(h) ==
    IF h = "raise"
       \/ ~(tp_menu_position \in (-tp_menu_items)..(tp_menu_items - 1))
    THEN TextError
    ELSE TextHandled(h)

TpIdle ==
    /\ tp_num_items = 1 /\ tp_text_height = 1 /\ tp_show_scroll = FALSE
    /\ tp_menu_items = 0
    /\ tp_head_position = 0 /\ tp_menu_position = 0
    /\ tp_shown = FALSE
    /\ tp_pc = "off"
    /\ tp_ret = TextNotReturned
    /\ tp_key = "none"
    /\ tp_before = <<0, 0>>

\* the fields as TextPane.__init__ lines 51-77 leaves them: read_file
\* yields at least one line, text_height = height - 2, any list of buttons
TextPaneInit ==
    /\ tp_num_items \in 1..MaxTextLines
    /\ \E height \in 1..MaxTextHeight : tp_text_height = height - 2
    /\ tp_show_scroll = (tp_num_items > tp_text_height)
    /\ tp_menu_items \in 0..MaxButtons
    /\ tp_head_position = 0 /\ tp_menu_position = 0
    /\ tp_shown = FALSE
    /\ tp_pc = "idle"
    /\ tp_ret = TextNotReturned
    /\ tp_key = "none"
    /\ tp_before = <<0, 0>>

TpConfig == <<tp_num_items, tp_text_height, tp_show_scroll, tp_menu_items>>

\* one key of the loop: the new head_position and menu_position, and what
\* is returned (TextNotReturned: the loop goes on and refreshes)
TextApply(key, head, pos, ret) ==
    /\ tp_key' = key
    /\ tp_before' = <<tp_head_position, tp_menu_position>>
    /\ tp_head_position' = head
    /\ tp_menu_position' = pos
    /\ tp_ret' = ret
    /\ tp_pc' = IF ret.kind = "none" THEN "loop" ELSE "idle"
    /\ tp_shown' = (ret.kind = "none")
    /\ UNCHANGED TpConfig
    /\ UNCHANGED notTp

\* do_action is called: lines 262-267, refresh() and getch()
TextDoAction ==
    /\ tp_pc = "idle"
    /\ tp_pc' = "loop"
    /\ tp_shown' = TRUE
    /\ tp_ret' = TextNotReturned
    /\ tp_key' = "none"
    /\ tp_before' = <<tp_head_position, tp_menu_position>>
    /\ UNCHANGED <<tp_head_position, tp_menu_position>>
    /\ UNCHANGED TpConfig
    /\ UNCHANGED notTp

TextKeyEnter ==
    /\ tp_pc = "loop"
    /\ \E h \in HandlerKinds :
       TextApply("enter", tp_head_position, tp_menu_position, TextOnEnter(h))

TextKeyUp ==
    /\ tp_pc = "loop"
    /\ TextApply("up", TextNavigate(tp_head_position, -1), tp_menu_position,
              TextNotReturned)

TextKeyDown ==
    /\ tp_pc = "loop"
    /\ TextApply("down", TextNavigate(tp_head_position, 1), tp_menu_position,
              TextNotReturned)

TextKeyLeft ==
    /\ tp_pc = "loop"
    /\ TextApply("left", tp_head_position, navigate_menu(tp_menu_position, 1),
              TextNotReturned)

TextKeyRight ==
    /\ tp_pc = "loop"
    /\ TextApply("right", tp_head_position, navigate_menu(tp_menu_position, -1),
              TextNotReturned)

TextKeyPageDown ==
    /\ tp_pc = "loop"
    /\ TextApply("npage", TextNavigate(tp_head_position, tp_text_height),
              tp_menu_position, TextNotReturned)

TextKeyPageUp ==
    /\ tp_pc = "loop"
    /\ TextApply("ppage", TextNavigate(tp_head_position, -tp_text_height),
              tp_menu_position, TextNotReturned)

TextKeyHome ==
    /\ tp_pc = "loop"
    /\ TextApply("home", 0, tp_menu_position, TextNotReturned)

TextKeyOther ==
    /\ tp_pc = "loop"
    /\ TextApply("other", tp_head_position, tp_menu_position, TextNotReturned)

TpNext ==
    \/ TextDoAction
    \/ TextKeyEnter
    \/ TextKeyUp
    \/ TextKeyDown
    \/ TextKeyLeft
    \/ TextKeyRight
    \/ TextKeyPageDown
    \/ TextKeyPageUp
    \/ TextKeyHome
    \/ TextKeyOther

(***************************************************************************)
(* TextPane.__init__ (textpane.py)                                         *)
(***************************************************************************)

\* The arguments of TextPane(starty, maxx, width, text_file_path, height,
\* menu_items): whether starty and maxx are valid, width and height, what
\* text_file_path is (not a string, no file, a file of some lines that need
\* no wrapping), and menu_items (-1: not a list of tuples, else its length).
TextPaneArgs ==
    [coords_ok : BOOLEAN, width : 0..MaxTextWidth, height : 0..MaxTextHeight,
     path : {"nonstr", "missing"}, file_lines : {0},
     menu_items : (-1)..MaxButtons]
    \cup
    [coords_ok : BOOLEAN, width : 0..MaxTextWidth, height : 0..MaxTextHeight,
     path : {"file"}, file_lines : 0..MaxTextLines,
     menu_items : (-1)..MaxButtons]

\* textpane.py imports curses, logging, ActionResult and Action (lines
\* 8-11): the name os, which line 42 evaluates, is bound nowhere
OsBound == FALSE

\* read_file lines 96-123 for a file of n short lines: every line is padded
\* to max(line_width, 1); an empty file gives the one line " " * line_width
read_file(n, line_width) ==
    IF n = 0
    THEN <<IF line_width < 0 THEN 0 ELSE line_width>>
    ELSE [i \in 1..n |-> IF line_width < 1 THEN 1 ELSE line_width]

\* the result of the constructor: the exception it raises ("none": it
\* returns) and the fields it assigned
TextPaneRaised(e) ==
    [exc |-> e, lines |-> <<>>, text_height |-> 0, num_items |-> 0,
     show_scroll |-> FALSE]

\* TextPane.__init__, lines 36-82
TextPaneNew(a) ==
    IF ~a.coords_ok THEN TextPaneRaised("ValueError")
    ELSE IF a.width <= 0 \/ a.height <= 0 THEN TextPaneRaised("ValueError")
    ELSE IF a.path = "nonstr" THEN TextPaneRaised("ValueError")
    ELSE IF ~OsBound THEN TextPaneRaised("NameError")
    ELSE IF a.path = "missing" THEN TextPaneRaised("ValueError")
    ELSE IF a.menu_items < 0 THEN TextPaneRaised("ValueError")
    ELSE LET ls == read_file(a.file_lines, a.width - 3)
         IN [exc |-> "none", lines |-> ls, text_height |-> a.height - 2,
             num_items |-> Len(ls),
             show_scroll |-> (Len(ls) > a.height - 2)]

TnIdle ==
    /\ tn_args = [coords_ok |-> FALSE, width |-> 0, height |-> 0,
                  path |-> "nonstr", file_lines |-> 0, menu_items |-> -1]
    /\ tn_pc = "off"
    /\ tn_exc = "none"
    /\ tn_lines = <<>>
    /\ tn_text_height = 0 /\ tn_num_items = 0 /\ tn_show_scroll = FALSE

\* a caller is about to construct a pane
TnInit ==
    /\ tn_args \in TextPaneArgs
    /\ tn_pc = "args"
    /\ tn_exc = "none"
    /\ tn_lines = <<>>
    /\ tn_text_height = 0 /\ tn_num_items = 0 /\ tn_show_scroll = FALSE

\* TextPane(...) is evaluated
TextPaneCall ==
    /\ tn_pc = "args"
    /\ LET r == TextPaneNew(tn_args)
       IN /\ tn_pc' = IF r.exc = "none" THEN "built" ELSE "raised"
          /\ tn_exc' = r.exc
          /\ tn_lines' = r.lines
          /\ tn_text_height' = r.text_height
          /\ tn_num_items' = r.num_items
          /\ tn_show_scroll' = r.show_scroll
    /\ tn_args' = tn_args
    /\ UNCHANGED notTn

TnNext == TextPaneCall

(***************************************************************************)
(* Window.__init__ (window.py)                                             *)
(***************************************************************************)

\* The arguments of Window(height, width, maxy, maxx, title, ...): the four
\* dimensions, whether title is a string and whether items is a list or
\* None.
WindowArgs ==
    [height : 0..MaxWinDim, width : 0..MaxWinDim,
     maxy : 0..MaxScreen, maxx : 0..MaxScreen,
     title_ok : BOOLEAN, items_ok : BOOLEAN]

\* curses.newwin(nlines, ncols): fails only for a negative size; 0 stands
\* for "up to the edge of the screen"
newwin(nlines, ncols) == nlines >= 0 /\ ncols >= 0

\* the result of the constructor: the exception it raises ("none": it
\* returns), the curses windows it created, (y, x), and the panel stack
WindowRaised(e, n) ==
    [exc |-> e, surfaces |-> n, yx |-> <<0, 0>>, z |-> <<>>]

\* Window.__init__, lines 44-129
WindowNew(a) ==
    IF a.height <= 0 \/ a.width <= 0 THEN WindowRaised("ValueError", 0)
    ELSE IF a.maxy <= 0 \/ a.maxx <= 0 THEN WindowRaised("ValueError", 0)
    ELSE IF ~a.title_ok THEN WindowRaised("ValueError", 0)
    ELSE IF ~a.items_ok THEN WindowRaised("ValueError", 0)
    ELSE IF ~newwin(a.height - 1, a.width - 1)
    THEN WindowRaised("curses.error", 0)
    ELSE IF ~newwin(a.height - 5, a.width - 5)
    THEN WindowRaised("curses.error", 1)
    ELSE [exc |-> "none", surfaces |-> 3,
          yx |-> <<(a.maxy - a.height) \div 2, (a.maxx - a.width) \div 2>>,
          z |-> HidePanels(<<"content", "text", "shadow">>)]

WnIdle ==
    /\ wn_args = [height |-> 0, width |-> 0, maxy |-> 0, maxx |-> 0,
                  title_ok |-> FALSE, items_ok |-> FALSE]
    /\ wn_pc = "off"
    /\ wn_exc = "none"
    /\ wn_surfaces = 0
    /\ wn_yx = <<0, 0>>
    /\ wn_z = <<>>

\* a page is about to construct a Window
WnInit ==
    /\ wn_args \in WindowArgs
    /\ wn_pc = "args"
    /\ wn_exc = "none"
    /\ wn_surfaces = 0
    /\ wn_yx = <<0, 0>>
    /\ wn_z = <<>>

\* Window(...) is evaluated
WindowCall ==
    /\ wn_pc = "args"
    /\ LET r == WindowNew(wn_args)
       IN /\ wn_pc' = IF r.exc = "none" THEN "built" ELSE "raised"
          /\ wn_exc' = r.exc
          /\ wn_surfaces' = r.surfaces
          /\ wn_yx' = r.yx
          /\ wn_z' = r.z
    /\ wn_args' = wn_args
    /\ UNCHANGED notWn

WnNext == WindowCall

(***************************************************************************)
(* FileDownloader.display (filedownloader.py)                              *)
(***************************************************************************)

\* lines 234-237: the list is created if the key is missing, then appended
AddFile(files) == IF files < 0 THEN 1 ELSE files + 1

\* display returns: ActionResult(True, None), ActionResult(False,
\* {'goBack': True}), or the failure Outcome of the URL reader
DReturn(ret) ==
    /\ d_pc' = "idle"
    /\ d_ret' = ret

DKeep == UNCHANGED <<d_setup_network, d_files_before>> /\ UNCHANGED notD

DIdle ==
    /\ d_setup_network = FALSE
    /\ d_files = -1 /\ d_files_before = -1
    /\ d_pc = "off"
    /\ d_ret = "none"
    /\ d_failure = "none"
    /\ d_acked = FALSE

\* FileDownloader.__init__, lines 60-68, over any configuration map
DInit ==
    /\ d_setup_network \in BOOLEAN
    /\ d_files \in (-1)..(MaxFiles - 1)
    /\ d_files_before = d_files
    /\ d_pc = "idle"
    /\ d_ret = "none"
    /\ d_failure = "none"
    /\ d_acked = FALSE

\* display is called, lines 160-164: network set-up first if requested
DisplayCall ==
    /\ d_pc = "idle"
    /\ d_pc' = IF d_setup_network THEN "net" ELSE "url"
    /\ d_ret' = "none"
    /\ d_failure' = "none"
    /\ d_acked' = FALSE
    /\ d_files_before' = d_files
    /\ UNCHANGED <<d_setup_network, d_files>>
    /\ UNCHANGED notD

\* do_setup_network lines 117-144: the network is set up
NetworkReady ==
    /\ d_pc = "net"
    /\ d_pc' = "url"
    /\ UNCHANGED <<d_ret, d_failure, d_acked, d_files>>
    /\ DKeep

\* lines 121-130: setup_network() returns a false value; the ConfirmWindow
\* is shown and waits
NetworkFails ==
    /\ d_pc = "net"
    /\ d_pc' = "net_panel"
    /\ d_failure' = "net_false"
    /\ UNCHANGED <<d_ret, d_acked, d_files>>
    /\ DKeep

\* lines 145-148 and 164-167: NetworkManager(...), setup_network(),
\* set_perms() or restart_networkd() raises; do_setup_network returns False
\* and display returns goBack
NetworkRaises ==
    /\ d_pc = "net"
    /\ DReturn("goBack")
    /\ d_failure' = "net_raise"
    /\ UNCHANGED <<d_acked, d_files>>
    /\ DKeep

\* lines 129-131 and 164-167: the ConfirmWindow returns after a key
NetworkPanelClosed ==
    /\ d_pc = "net_panel"
    /\ DReturn("goBack")
    /\ d_acked' = TRUE
    /\ UNCHANGED <<d_failure, d_files>>
    /\ DKeep

\* lines 179-205: the URL reader returns success and the status window is
\* shown; wget is started
UrlEntered ==
    /\ d_pc = "url"
    /\ d_pc' = "wget"
    /\ UNCHANGED <<d_ret, d_failure, d_acked, d_files>>
    /\ DKeep

\* lines 186-193 and 202-205: the reader returns a failure, which display
\* returns as it is; the reader or the status window raises: goBack
UrlAbandoned ==
    /\ d_pc = "url"
    /\ \E ret \in {"reader_failure", "goBack"} : DReturn(ret)
    /\ UNCHANGED <<d_failure, d_acked, d_files>>
    /\ DKeep

\* lines 213-244: wget succeeds; the file is added to the configuration
DownloadDone ==
    /\ d_pc = "wget"
    /\ d_files < MaxFiles
    /\ d_files' = AddFile(d_files)
    /\ DReturn("success")
    /\ UNCHANGED <<d_failure, d_acked>>
    /\ DKeep

\* lines 219-223: wget returns (False, msg); the error is shown
DownloadFails ==
    /\ d_pc = "wget"
    /\ d_pc' = "error_failed"
    /\ d_failure' = "download_false"
    /\ UNCHANGED <<d_ret, d_acked, d_files>>
    /\ DKeep

\* lines 245-249: mkstemp or wget raises; the error is shown
DownloadRaises ==
    /\ d_pc = "wget"
    /\ d_pc' = "error_raised"
    /\ d_failure' = "download_raise"
    /\ UNCHANGED <<d_ret, d_acked, d_files>>
    /\ DKeep

\* lines 224-231 and 250-257: a key other than F1 ends the wait
ErrorKey ==
    /\ d_pc \in {"error_failed", "error_raised"}
    /\ DReturn("goBack")
    /\ d_acked' = TRUE
    /\ UNCHANGED <<d_failure, d_files>>
    /\ DKeep

\* lines 225-226 and 251-252: F1 calls status_window.show_help(), which
\* Window does not define: inside the try block the AttributeError leads
\* to the except clause, inside the except clause it leaves display
ErrorKeyF1 ==
    /\ d_pc \in {"error_failed", "error_raised"}
    /\ d_pc' = IF d_pc = "error_failed" THEN "error_raised" ELSE "raised"
    /\ d_ret' = IF d_pc = "error_failed" THEN d_ret ELSE "exception"
    /\ UNCHANGED <<d_failure, d_acked, d_files>>
    /\ DKeep

DNext ==
    \/ DisplayCall
    \/ NetworkReady
    \/ NetworkFails
    \/ NetworkRaises
    \/ NetworkPanelClosed
    \/ UrlEntered
    \/ UrlAbandoned
    \/ DownloadDone
    \/ DownloadFails
    \/ DownloadRaises
    \/ ErrorKey
    \/ ErrorKeyF1

(***************************************************************************)
(* Pages: a Window that embeds a single-select list                        *)
(* (selectdisk.py: SelectDisk, wheelselector.py: WheelSelector)            *)
(***************************************************************************)

\* the handler of a list item: SelectDisk.save_index stores the path of the
\* device and returns ActionResult(True, {'diskIndex': i}); set_wheel
\* stores the payload and returns ActionResult(True, None)
PageHandler == IF pg_kind = "disk" THEN "okPayload" ELSE "ok"

\* the callback of a button: custom_function and auto_function return
\* ActionResult(True, {'goNext': True}); next_function ActionResult(True,
\* None)
PageCallback == IF pg_kind = "disk" THEN "okGoNext" ELSE "ok"

\* the diskIndex carried by what the list returned: that of the handler's
\* Outcome after Enter, else that of the early exit (-1: none)
DiskIndexOf(st) ==
    IF st.ret.handler # "none"
    THEN IF pg_kind = "disk" THEN st.invoked.item ELSE -1
    ELSE st.ret.diskIndex

\* what Menu.do_action returned, as the Window reads it
PanelOutcome(st) ==
    IF st.ret.handler # "none"
    THEN Outcome(TRUE, pg_kind # "disk", FALSE, FALSE, 0, pg_kind = "disk",
                 FALSE)
    ELSE Outcome(st.ret.success,
                 st.ret.diskIndex = -1 /\ st.ret.direction = 0
                    /\ ~st.ret.error,
                 FALSE, FALSE, st.ret.direction, st.ret.diskIndex # -1,
                 st.ret.error)

\* install_config['disk'] after a list step: the handler of the disk page
\* stores the device of the item it is invoked for
AfterHandler(st) ==
    IF pg_kind = "disk" /\ st.invoked.n = 1 THEN st.invoked.item ELSE pg_disk

PgIdle ==
    /\ pg_kind = "none"
    /\ pg_disk = -1 /\ pg_wheel = -1
    /\ pg_handled = {}
    /\ pg_ar_disk = -1

\* WheelSelector.__init__ lines 46-58 and SelectDisk.__init__ lines 58-70:
\* the Window and (for the wheel page) the Menu each page constructs; the
\* Menu of the disk page is rebuilt by every display()
PgInit ==
    /\ pg_kind \in {"disk", "wheel"}
    /\ w_can_go_back = TRUE
    /\ w_can_go_next = (pg_kind = "wheel")
    /\ w_has_next = (pg_kind = "wheel")
    /\ w_items = IF pg_kind = "wheel" THEN 1 ELSE 2
    /\ w_menu_helper = (pg_kind = "disk")
    /\ w_action_panel = TRUE
    /\ w_tab_enabled = FALSE /\ w_read_text = FALSE
    /\ w_position = IF pg_kind = "wheel" THEN 1 ELSE 2
    /\ w_z = HidePanels(<<"content", "text", "shadow">>)
    /\ w_z_before = <<"content", "text", "shadow">>
    /\ w_shown = Visible(w_z)
    /\ w_panel_shown = FALSE
    /\ w_pc = "idle"
    /\ w_ar = FailureNone /\ w_via = "none"
    /\ w_ret = NotReturned
    /\ w_event = "none" /\ w_event_pos = 0
    /\ w_cbs = 0 /\ w_cb_last = "none" /\ w_helper = FALSE
    /\ w_pre = 0 /\ w_cb_first = "none"
    /\ r_num_items \in IF pg_kind = "wheel" THEN {2} ELSE 1..MaxRunItems
    /\ r_height = MenuHeight(IF pg_kind = "wheel" THEN 0 ELSE 5, r_num_items)
    /\ r_selector_menu = FALSE /\ r_can_navigate_outside = TRUE
    /\ r_save_sel = (pg_kind = "disk")
    /\ r_tab_enable = FALSE
    /\ r_position = 0 /\ r_head_position = 0
    /\ r_selected_items = {}
    /\ r_shown = FALSE
    /\ r_pc = "idle"
    /\ r_ret = RunNotReturned
    /\ r_key = "none"
    /\ r_before = [position |-> 0, head |-> 0, selected |-> {}]
    /\ r_invoked = NoInvocation
    /\ pg_disk \in IF pg_kind = "disk" THEN (-1)..(r_num_items - 1) ELSE {-1}
    /\ pg_wheel \in IF pg_kind = "wheel" THEN (-1)..1 ELSE {-1}
    /\ pg_handled = {}
    /\ pg_ar_disk = -1

\* display(): selectdisk.py lines 114-143 (a new Menu, set_action_panel,
\* window.do_action()), wheelselector.py lines 104-108; the Window shows
\* itself and calls the list, which blocks in getch
PageDisplay ==
    /\ w_pc = "idle" /\ r_pc = "idle"
    /\ DoActionBegin
    /\ r_pc' = "loop"
    /\ r_ret' = RunNotReturned
    /\ r_shown' = TRUE
    /\ r_key' = "none"
    /\ r_position' = IF pg_kind = "disk" THEN 0 ELSE r_position
    /\ r_head_position' = IF pg_kind = "disk" THEN 0 ELSE r_head_position
    /\ r_before' = [position |-> r_position', head |-> r_head_position',
                    selected |-> r_selected_items]
    /\ r_invoked' = NoInvocation
    /\ UNCHANGED r_selected_items
    /\ UNCHANGED RunConfig
    /\ pg_handled' = {}
    /\ pg_ar_disk' = -1
    /\ UNCHANGED <<pg_kind, pg_disk, pg_wheel>>
    /\ UNCHANGED notPg

\* a key read by the list while the Window waits in action_panel.do_action()
\* (window.py lines 245, 348, 366): the step st of the list and, if the
\* list returns, what the Window makes of its Outcome
PageListKey(key, st) ==
    /\ RunApplyKey(key, st)
    /\ pg_handled' = IF st.invoked.n = 1
                     THEN pg_handled \cup {st.invoked.item}
                     ELSE pg_handled
    /\ pg_wheel' = IF pg_kind = "wheel" /\ st.invoked.n = 1
                   THEN st.invoked.item
                   ELSE pg_wheel
    /\ IF st.ret.kind = "none"
       THEN /\ UNCHANGED winVars
            /\ pg_ar_disk' = pg_ar_disk
            /\ pg_disk' = AfterHandler(st)
       ELSE LET a == PanelOutcome(st)
                r == IF w_pc = "panel"
                     THEN OnFirstReturn(a, w_position, PageCallback,
                                        PageCallback)
                     ELSE OnArrowReturn(a, w_position, PageCallback)
            IN /\ w_ar' = a
               /\ w_via' = IF w_pc = "panel" THEN "first" ELSE "arrow"
               /\ ApplyWin(r.s, r.pos, r.event)
               /\ pg_ar_disk' = DiskIndexOf(st)
               /\ pg_disk' = IF r.s.helper
                             THEN DiskIndexOf(st)
                             ELSE AfterHandler(st)
    /\ pg_kind' = pg_kind
    /\ UNCHANGED notPg

\* the list is inside do_action, called by the Window
InList == w_pc \in {"panel", "panel_arrow"} /\ r_pc = "loop"

PageListEnter == InList /\ PageListKey("enter", MenuOnEnter(PageHandler))

PageListLeft == InList /\ PageListKey("left", MenuOnLeft(PageHandler))

PageListRight == InList /\ PageListKey("right", MenuOnRight)

\* the keys that move the focus of the list or do nothing
PageListMove ==
    /\ InList
    /\ \E key \in {"up", "down", "npage", "ppage", "home", "space", "tab",
                   "other"} :
       PageListKey(key,
                   CASE key = "up" -> MenuOnUp
                     [] key = "down" -> MenuOnDown
                     [] key = "npage" -> MenuOnPage(1)
                     [] key = "ppage" -> MenuOnPage(-1)
                     [] key = "home" -> MenuOnHome
                     [] key = "space" -> MenuOnSpace
                     [] key = "tab" -> MenuOnTab
                     [] OTHER -> Stay)

\* a key read by the Window in its button row: the list stays as it is
PageButtonKey(s, pos, event) ==
    /\ ApplyWin(s, pos, event)
    /\ UNCHANGED <<w_ar, w_via>>
    /\ pg_disk' = IF s.helper THEN pg_ar_disk ELSE pg_disk
    /\ UNCHANGED <<pg_kind, pg_wheel, pg_handled, pg_ar_disk>>
    /\ UNCHANGED runVars
    /\ UNCHANGED notPg

\* window.py lines 298-322: Enter on the focused button
PageButtonEnter ==
    /\ w_pc = "keys"
    /\ PageButtonKey(OnEnter(w_ar, w_position, PageCallback), w_position,
                     "enter")

\* lines 345-347, 361-365, 379-380: Left and Right move the button focus
PageButtonSide ==
    /\ w_pc = "keys"
    /\ \E n \in {-1, 1} :
         PageButtonKey(Continue("keys"), RefreshPosition(w_position, n),
                       "key")

\* lines 346-348 and 364-366: Up and Down of a Window that is not
\* tab-navigable move the focus of the list and call the list again
PageButtonVertical ==
    /\ w_pc = "keys" /\ ~w_tab_enabled
    /\ \E n \in {-1, 1} :
         LET st == RunNavigate(n)
         IN /\ r_position' = st.position
            /\ r_head_position' = st.head
            /\ r_before' = [position |-> r_position, head |-> r_head_position,
                            selected |-> r_selected_items]
    /\ r_pc' = "loop"
    /\ r_ret' = RunNotReturned
    /\ r_shown' = TRUE
    /\ r_key' = "none"
    /\ r_invoked' = NoInvocation
    /\ UNCHANGED r_selected_items
    /\ UNCHANGED RunConfig
    /\ ApplyWin(Continue("panel_arrow"), w_position, "key")
    /\ UNCHANGED <<w_ar, w_via>>
    /\ UNCHANGED pgVars
    /\ UNCHANGED notPg

\* Tab (tab_enabled is False on both pages) and the keys no branch tests
PageButtonOther ==
    /\ w_pc = "keys"
    /\ PageButtonKey(Continue("keys"), w_position, "key")

PgNext ==
    \/ PageDisplay
    \/ PageListEnter
    \/ PageListLeft
    \/ PageListRight
    \/ PageListMove
    \/ PageButtonEnter
    \/ PageButtonSide
    \/ PageButtonVertical
    \/ PageButtonOther

(***************************************************************************)
(* TextPane.read_file: wrapping one line of the file                       *)
(***************************************************************************)

\* the characters of a line: a space, two letters, the line end
Chars == {" ", "a", "b"}
Blank == {" ", "\n"}

\* the lines that iterating the file yields: some characters, then a line
\* end unless the file ends without one
SourceLines ==
    LET bodies == UNION {[1..n -> Chars] : n \in 0..MaxLineLen}
    IN ({b \o <<"\n">> : b \in bodies} \cup bodies) \ {<<>>}

\* str.lstrip(), str.rstrip(), str.strip()
lstrip(s) ==
    LET k == IF \A i \in 1..Len(s) : s[i] \in Blank THEN Len(s) + 1
             ELSE CHOOSE i \in 1..Len(s) :
                     /\ s[i] \notin Blank
                     /\ \A j \in 1..(i - 1) : s[j] \in Blank
    IN SubSeq(s, k, Len(s))

rstrip(s) ==
    LET k == IF \A i \in 1..Len(s) : s[i] \in Blank THEN 0
             ELSE CHOOSE i \in 1..Len(s) :
                     /\ s[i] \notin Blank
                     /\ \A j \in (i + 1)..Len(s) : s[j] \in Blank
    IN SubSeq(s, 1, k)

strip(s) == rstrip(lstrip(s))

\* ' ' * k
Spaces(k) == [i \in 1..k |-> " "]

\* line 107
actual_line_width(line_width, indent) ==
    IF line_width - indent > 1 THEN line_width - indent ELSE 1

\* lines 111-113: the inner while loop, from sep_index = k down
RECURSIVE SepIndex(_, _)
SepIndex(line, k) ==
    IF k > 0 /\ line[k] # " " /\ line[k + 1] # " "
    THEN SepIndex(line, k - 1)
    ELSE k

\* lines 117, 119: one appended line
Padded(indent, text, width) ==
    Spaces(indent) \o text \o Spaces(width - Len(text))

RfIdle ==
    /\ rf_line = <<>> /\ rf_line_width = 0 /\ rf_pc = "off"
    /\ rf_indent = 0 /\ rf_rest = <<>> /\ rf_lines = <<>> /\ rf_prev = 0

\* read_file(path, self.width - 3) with width > 0 (line 38) has met a line
RfInit ==
    /\ rf_line \in SourceLines
    /\ rf_line_width \in (-2)..MaxTextWidth
    /\ rf_pc = "line"
    /\ rf_indent = 0 /\ rf_rest = <<>> /\ rf_lines = <<>> /\ rf_prev = 0

\* lines 105-108: indent, actual_line_width, line = line.strip()
ReadLine ==
    /\ rf_pc = "line"
    /\ rf_indent' = Len(rf_line) - Len(lstrip(rf_line))
    /\ rf_rest' = strip(rf_line)
    /\ rf_pc' = "wrap"
    /\ rf_prev' = Len(rf_rest')
    /\ UNCHANGED <<rf_line, rf_line_width, rf_lines>>
    /\ UNCHANGED notRf

\* lines 110-117: one pass of "while len(line) > actual_line_width"
WrapLine ==
    /\ rf_pc = "wrap"
    /\ LET width == actual_line_width(rf_line_width, rf_indent)
       IN /\ Len(rf_rest) > width
          /\ LET sep_index == SepIndex(rf_rest, width)
                 current_line_width ==
                     IF sep_index > 0 THEN sep_index ELSE width
                 currLine == SubSeq(rf_rest, 1, current_line_width)
             IN /\ rf_rest' = strip(SubSeq(rf_rest, current_line_width + 1,
                                           Len(rf_rest)))
                /\ rf_lines' = Append(rf_lines,
                                      Padded(rf_indent, currLine, width))
    /\ rf_prev' = Len(rf_rest)
    /\ UNCHANGED <<rf_line, rf_line_width, rf_pc, rf_indent>>
    /\ UNCHANGED notRf

\* line 119: the loop is left and the rest of the line appended
EmitRest ==
    /\ rf_pc = "wrap"
    /\ LET width == actual_line_width(rf_line_width, rf_indent)
       IN /\ Len(rf_rest) <= width
          /\ rf_lines' = Append(rf_lines, Padded(rf_indent, rf_rest, width))
    /\ rf_pc' = "done"
    /\ UNCHANGED <<rf_line, rf_line_width, rf_indent, rf_rest, rf_prev>>
    /\ UNCHANGED notRf

RfNext == ReadLine \/ WrapLine \/ EmitRest

(***************************************************************************)
(* Specifications                                                          *)
(***************************************************************************)
InitWizard == WizInit /\ MenuIdle /\ ThumbIdle /\ WinIdle /\ RunIdle
    /\ TpIdle /\ TnIdle /\ WnIdle /\ DIdle /\ PgIdle /\ RfIdle
SpecWizard == InitWizard /\ [][WizNext]_vars

InitMenu == MenuInit /\ WizIdle /\ ThumbIdle /\ WinIdle /\ RunIdle /\ TpIdle
    /\ TnIdle /\ WnIdle /\ DIdle /\ PgIdle /\ RfIdle
SpecMenu == InitMenu /\ [][MenuNext]_vars

InitThumb == ThumbInit /\ WizIdle /\ MenuIdle /\ WinIdle /\ RunIdle /\ TpIdle
    /\ TnIdle /\ WnIdle /\ DIdle /\ PgIdle /\ RfIdle
SpecThumb == InitThumb /\ [][ThumbNext]_vars

InitWindow == WinInit /\ WizIdle /\ MenuIdle /\ ThumbIdle /\ RunIdle
    /\ TpIdle /\ TnIdle /\ WnIdle /\ DIdle /\ PgIdle /\ RfIdle
SpecWindow == InitWindow /\ [][WinNext]_vars

InitRun == RunInit /\ WizIdle /\ MenuIdle /\ ThumbIdle /\ WinIdle /\ TpIdle
    /\ TnIdle /\ WnIdle /\ DIdle /\ PgIdle /\ RfIdle
SpecRun == InitRun /\ [][RunNext]_vars

InitTextPane == TextPaneInit /\ WizIdle /\ MenuIdle /\ ThumbIdle /\ WinIdle
    /\ RunIdle /\ TnIdle /\ WnIdle /\ DIdle /\ PgIdle /\ RfIdle
SpecTextPane == InitTextPane /\ [][TpNext]_vars

InitTextPaneNew == TnInit /\ WizIdle /\ MenuIdle /\ ThumbIdle /\ WinIdle
    /\ RunIdle /\ TpIdle /\ WnIdle /\ DIdle /\ PgIdle /\ RfIdle
SpecTextPaneNew == InitTextPaneNew /\ [][TnNext]_vars

InitWindowNew == WnInit /\ WizIdle /\ MenuIdle /\ ThumbIdle /\ WinIdle
    /\ RunIdle /\ TpIdle /\ TnIdle /\ DIdle /\ PgIdle /\ RfIdle
SpecWindowNew == InitWindowNew /\ [][WnNext]_vars

InitDownload == DInit /\ WizIdle /\ MenuIdle /\ ThumbIdle /\ WinIdle
    /\ RunIdle /\ TpIdle /\ TnIdle /\ WnIdle /\ PgIdle /\ RfIdle
SpecDownload == InitDownload /\ [][DNext]_vars

InitPage == PgInit /\ WizIdle /\ MenuIdle /\ ThumbIdle /\ TpIdle /\ TnIdle
    /\ WnIdle /\ DIdle /\ RfIdle
SpecPage == InitPage /\ [][PgNext]_vars

InitReadFile == RfInit /\ WizIdle /\ MenuIdle /\ ThumbIdle /\ WinIdle
    /\ RunIdle /\ TpIdle /\ TnIdle /\ WnIdle /\ DIdle /\ PgIdle
SpecReadFile == InitReadFile /\ [][RfNext]_vars

(***************************************************************************)
(* Properties of the wizard controller                                     *)
(***************************************************************************)
LastPage == Len(items) - 1

Invoked == lastIndex >= 0

IsInactive(a) == ~a.isNone /\ a.inactive_screen

\* the page returned a failure Outcome (and is not an inactive page)
PageFailed == Invoked /\ arRaw.success = "False" /\ ~IsInactive(arRaw)

\* the page returned a success Outcome (and is not an inactive page)
PageSucceeded == Invoked /\ arRaw.success = "True" /\ ~IsInactive(arRaw)

\* the last transition was a backward one
MovedBack == Invoked /\ ~Truthy(ar.success)

\* the retreat rule as the specification words it: the greatest j <= k-1
\* whose flag is true, or 0 if there is none
GreatestRetreat(its, k) ==
    LET S == {j \in 0..(k - 1) : its[j + 1].retreat}
    IN IF S = {} THEN 0 ELSE CHOOSE j \in S : \A m \in S : m <= j

\* C1: when the page invoked at index k yields a failure Outcome, the next
\* page invoked is the one at the greatest index j <= k-1 whose retreat flag
\* is true, or index 0 if there is no such j.
C1_FailureLandsOnGreatestRetreat ==
    PageFailed => wpc = "loop" /\ index = GreatestRetreat(items, lastIndex)

\* Scenario B: flags [false, true, true], a failure at index 2 landed on 1
C1_Witness ==
    /\ Len(items) = 3
    /\ ~items[1].retreat /\ items[2].retreat /\ items[3].retreat
    /\ PageFailed /\ lastIndex = 2 /\ index = 1

\* C2 as claimed: a backward transition never lands on a page whose
\* retreat flag is false.
C2_NeverLandsOnUnflagged ==
    MovedBack => items[index + 1].retreat

\* C2 as amended: a backward transition never lands on a page of index >= 1
\* whose retreat flag is false; index 0 is the landing target when no
\* flagged page lies before the failing one, whatever its own flag is.
C2_NeverLandsOnUnflaggedButFirst ==
    MovedBack => wpc = "loop" /\ (index = 0 \/ items[index + 1].retreat)

\* a failure passed over an unflagged page and landed on a flagged page
\* that is not the first one
C2_Witness ==
    /\ MovedBack /\ index >= 1 /\ index < lastIndex - 1
    /\ ~items[index + 2].retreat

\* C3: an inactive Outcome makes the controller continue in the direction
\* of the previous transition (forward on the first invocation or after a
\* success, backward by the retreat rule after a failure), its own success
\* flag is not used, and the next page invoked is another page (or the
\* wizard ends).
C3_InactiveKeepsDirection ==
    /\ go_next = (IF Invoked THEN ar.success ELSE "True")
    /\ (Invoked /\ IsInactive(arRaw)) =>
          /\ ar.success = prevGoNext
          /\ prevGoNext \in {"True", "False"}
          /\ Truthy(prevGoNext) =>
                /\ index = lastIndex + 1
                /\ wpc = (IF lastIndex = LastPage THEN "exited" ELSE "loop")
          /\ ~Truthy(prevGoNext) =>
                /\ index = GreatestRetreat(items, lastIndex)
                /\ wpc = "loop"
          /\ index # lastIndex

\* an inactive page was passed on the way forward
C3_WitnessForward ==
    Invoked /\ IsInactive(arRaw) /\ Truthy(prevGoNext) /\ index = lastIndex + 1

\* an inactive page was passed on the way back
C3_Witness ==
    Invoked /\ IsInactive(arRaw) /\ ~Truthy(prevGoNext) /\ index < lastIndex

\* C4: a success at a page k before the last one makes k+1 the next page
\* invoked, whatever the retreat flags of k and k+1 are.
C4_ForwardUnconditional ==
    (PageSucceeded /\ lastIndex < LastPage) =>
        wpc = "loop" /\ index = lastIndex + 1

\* a success moved from an unflagged page onto an unflagged page
C4_Witness ==
    /\ PageSucceeded /\ lastIndex < LastPage /\ index = lastIndex + 1
    /\ ~items[lastIndex + 1].retreat /\ ~items[index + 1].retreat

\* C5: configure returns only after the last page yielded success with
\* yes = true; a success at the last page without yes exits the process; no
\* Outcome of an earlier page and no failure ends the wizard.
C5_EndsOnlyOnConfirmedYes ==
    /\ wpc = "done" =>
          /\ lastIndex = LastPage
          /\ arRaw.success = "True" /\ ~arRaw.isNone /\ arRaw.yes
    /\ (Invoked /\ lastIndex = LastPage /\ Truthy(ar.success) /\ ~ar.yes) =>
          wpc = "exited"
    /\ wpc # "loop" => lastIndex = LastPage /\ Truthy(ar.success)
    /\ (Invoked /\ (lastIndex < LastPage \/ ~Truthy(ar.success))) => wpc = "loop"

\* the wizard ended with the configuration
C5_Witness == wpc = "done" /\ lastIndex = LastPage /\ arRaw.yes

\* the process was aborted at the last page
C5_WitnessExit == wpc = "exited" /\ arRaw.success = "True" /\ ~arRaw.yes


(***************************************************************************)
(* Properties of Menu.navigate                                             *)
(***************************************************************************)
Navigated == m_calls >= 1

\* C6: for N >= 1 items and viewport height 1 <= H <= N, after every call
\* of navigate the focus is a valid index and lies inside the visible
\* window: 0 <= position < N and head <= position <= head + H - 1.
C6_FocusVisibleAfterNavigate ==
    /\ m_calls >= 0 => 1 <= m_height /\ m_height <= m_num_items
    /\ Navigated =>
          /\ 0 <= m_position /\ m_position < m_num_items
          /\ m_head_position <= m_position
          /\ m_position <= m_head_position + m_height - 1

\* a navigate call from a freshly built menu whose default selection lay
\* below the first window, and one that moved the focus above the window
C6_Witness ==
    /\ Navigated /\ m_before >= m_before_head + m_height
    /\ m_head_position > 0

C6_WitnessUp ==
    Navigated /\ m_position < m_before_head /\ m_head_position = m_position

\* the clamping rule as the specification words it
MinOf(a, b) == IF a < b THEN a ELSE b
MaxOf(a, b) == IF a > b THEN a ELSE b

\* C7: navigate(d) never wraps: the new position is
\* min(N-1, max(0, position + d)); a delta leading out of [0, N-1] lands on
\* the nearest boundary, and repeating such a call at the boundary changes
\* neither position nor head_position.
C7_NavigateClamps ==
    Navigated =>
      /\ m_position = MinOf(m_num_items - 1, MaxOf(0, m_before + m_n))
      /\ m_before + m_n < 0 => m_position = 0
      /\ m_before + m_n > m_num_items - 1 => m_position = m_num_items - 1
      /\ (m_calls >= 2 /\ (m_before + m_n < 0 \/ m_before + m_n > m_num_items - 1)
            /\ m_before \in {0, m_num_items - 1}
            /\ m_position = m_before)
          => m_head_position = m_before_head

\* an overshooting delta was repeated at the lower boundary of a list of
\* several items
C7_Witness ==
    /\ m_calls >= 2 /\ m_num_items >= 3
    /\ m_before = m_num_items - 1 /\ m_before + m_n > m_num_items
    /\ m_position = m_num_items - 1

(***************************************************************************)
(* Properties of the thumb size                                            *)
(***************************************************************************)

\* C8: whenever a scrollbar is shown (N > H >= 1), the thumb size computed
\* by the constructor of the list widget and of the text pane satisfies
\* 1 <= filled <= H.
C8_ThumbWithinTrack ==
    (th_built /\ th_show_scroll /\ th_height >= 1) =>
        1 <= th_filled /\ th_filled <= th_height

\* the upper half of C8, which the code does satisfy
C8_ThumbAtMostTrack ==
    (th_built /\ th_show_scroll /\ th_height >= 1) => th_filled <= th_height

(***************************************************************************)
(* Properties of Window.do_action                                          *)
(***************************************************************************)
WinReturned == w_pc = "idle" /\ w_ret.kind # "none" /\ w_via # "none"

ReturnedSuccess == w_ret.kind = "result" /\ w_ret.val.success

\* C9 as claimed: do_action returns success if and only if the last
\* Outcome of its panel is success.
C9_SuccessIffPanelSuccess ==
    WinReturned => (ReturnedSuccess <=> w_ar.success)

\* C9 as amended: do_action returns success exactly when
\*  - the panel's last Outcome is a success tagged goNext, or
\*  - the panel's last Outcome is a success and the panel was re-entered
\*    by Tab, or the Window owns no button items (and, on the first panel
\*    call, position is 0), or
\*  - the button callback at position-1 >= 0, invoked on a panel success or
\*    on Enter in the button row after a panel failure, returned success.
C9_SuccessCauses ==
    WinReturned =>
      (ReturnedSuccess <=>
         \/ w_event = "panel_success" /\ w_ar.success /\ HasKey(w_ar, w_ar.goNext)
         \/ w_event = "panel_success" /\ w_ar.success /\ w_via = "tab"
         \/ /\ w_event = "panel_success" /\ w_ar.success /\ w_items = 0
            /\ (w_via # "first" \/ w_event_pos = 0)
         \/ /\ w_event \in {"panel_success", "enter"}
            /\ (w_event = "enter" <=> ~w_ar.success)
            /\ w_event_pos >= 1 /\ w_event_pos <= w_items
            /\ w_cb_last \in {"ok", "okGoNext"})

\* do_action returned success although the panel's last Outcome is a failure
C9_Witness ==
    WinReturned /\ ReturnedSuccess /\ ~w_ar.success /\ w_event = "enter"

\* do_action returned failure although the panel's last Outcome is a success
C9_WitnessFailure ==
    /\ WinReturned /\ w_ret.kind = "result" /\ ~w_ret.val.success
    /\ w_ar.success /\ w_event_pos = 0

BackDecides ==
    /\ w_event_pos = 0
    /\ \/ w_event = "enter"
       \/ /\ w_event = "panel_success" /\ w_items > 0 /\ w_via # "tab"
          /\ ~HasKey(w_ar, w_ar.goNext)

C10_WitnessPanel ==
    /\ w_can_go_back /\ w_event = "panel_success" /\ BackDecides
    /\ w_ret = Returned(FailureNone)

\* C11: if the panel returns success with goNext set, do_action returns
\* success without invoking any button callback and without calling
\* menu_helper, whatever the button position is.
C11_GoNextShortCircuits ==
    (w_event = "panel_success" /\ w_ar.success /\ HasKey(w_ar, w_ar.goNext))
      => /\ w_pc = "idle" /\ ReturnedSuccess
         /\ w_cbs = 0 /\ ~w_helper

\* a goNext success reached a Window with button items while a button item
\* was focused, after the loop had re-entered the panel
C11_Witness ==
    /\ w_event = "panel_success" /\ HasKey(w_ar, w_ar.goNext)
    /\ w_items > 0 /\ w_event_pos >= 1 /\ w_via = "arrow"
    /\ ReturnedSuccess

\* the same at the Back sentinel
C11_WitnessBack ==
    /\ w_event = "panel_success" /\ HasKey(w_ar, w_ar.goNext)
    /\ w_items > 0 /\ w_event_pos = 0 /\ w_via # "tab"
    /\ ReturnedSuccess

\* C12: in every run in which the panel returns success carrying diskIndex
\* and the Window owns button items (and a helper), menu_helper is called
\* before any button callback is invoked.
C12_HelperBeforeCallbacks ==
    (/\ w_event = "panel_success" /\ w_ar.success
     /\ HasKey(w_ar, w_ar.diskIndex)
     /\ w_items > 0 /\ w_menu_helper /\ w_cbs > 0)
      => w_helper /\ w_pre = 0

\* C13: when the Window invokes the button callback at position-1 and it
\* returns success, do_action hides the window surfaces and the panel and
\* returns exactly that Outcome; when it returns failure with goBack,
\* do_action hides everything and returns failure.
C13_CallbackOutcomeDecides ==
    \A c \in {w_cb_first, w_cb_last} :
      /\ c \in {"ok", "okGoNext"} =>
            /\ w_pc = "idle" /\ w_ret = Returned(CallbackResult(c))
            /\ w_shown = AllHidden /\ ~w_panel_shown
      /\ c = "goBack" =>
            /\ w_pc = "idle" /\ w_ret.kind = "result" /\ ~w_ret.val.success
            /\ w_shown = AllHidden /\ ~w_panel_shown

\* the button position moved by d within the button row: 0..N with Back,
\* 0..N-1 without; a Window without items stays at 0 unless it has Next
\* enabled without Back, where the position is not bounded above
MovedBy(pos, d) ==
    IF w_items = 0
    THEN IF w_can_go_next THEN MaxOf(pos + d, 0) ELSE 0
    ELSE MinOf(MaxOf(pos + d, 0),
               IF w_can_go_back THEN w_items ELSE w_items - 1)

DirectionExit ==
    /\ w_event = "panel_failure" /\ ~w_tab_enabled
    /\ ~w_ar.success /\ HasKey(w_ar, w_ar.direction # 0)

\* C14 as claimed: when the Window is not tab-navigable and its panel exits
\* with failure carrying direction d, the button position moves by d
\* (clamped) and the panel is re-entered: the next key is read by the panel.
C14_DirectionReentersPanel ==
    DirectionExit =>
      /\ w_position = MovedBy(w_event_pos, w_ar.direction)
      /\ w_pc \in {"panel", "panel_rt", "panel_tab", "panel_arrow"}

\* C14 as amended: the button position moves by d (clamped) and the loop
\* goes on: a read_text Window re-enters its panel at once, every other
\* Window reads the next key itself, in its button row.
C14_DirectionMovesButtonFocus ==
    DirectionExit =>
      /\ w_position = MovedBy(w_event_pos, w_ar.direction)
      /\ w_pc = IF w_read_text THEN "panel_rt" ELSE "keys"
      /\ w_ret = NotReturned /\ w_cbs = 0

\* a direction exit moved the button focus of a Window that reads its own
\* keys
C14_Witness ==
    /\ DirectionExit /\ ~w_read_text /\ w_items >= 2
    /\ w_position # w_event_pos /\ w_pc = "keys"

\* a direction exit of a read_text Window
C14_WitnessReadText ==
    DirectionExit /\ w_read_text /\ w_position # w_event_pos /\ w_pc = "panel_rt"

\* C15: a Window with can_go_back and can_go_next has the Next item as its
\* last button item and starts every run at position 1, whatever position
\* was passed and wherever the previous run ended.
C15_NextWindowStartsAtOne ==
    (w_can_go_back /\ w_can_go_next /\ w_pc # "off") =>
      /\ w_has_next /\ w_items >= 1 /\ Callbacks(w_items) = {"ok"}
      /\ w_event \in {"none", "start"} => w_position = 1

\* a run started at position 1 after the previous run had ended on Back
C15_Witness ==
    /\ w_can_go_back /\ w_can_go_next
    /\ w_event = "start" /\ w_event_pos = 0 /\ w_position = 1

\* C16: where the Window acts on its button position (Enter, panel
\* success) in a Window with button items, position is 0 only if Back is
\* enabled and otherwise designates the existing item position-1; and the
\* button highlighted by refresh is the button Enter acts on.
C16_PositionDesignatesHighlighted ==
    /\ (w_event \in {"enter", "panel_success"} /\ w_items > 0) =>
          \/ w_event_pos = 0 /\ w_can_go_back
          \/ w_event_pos >= 1 /\ w_event_pos <= w_items
    /\ (w_pc = "keys" /\ w_items > 0) =>
          Highlighted(w_position) = EnterTarget(w_position)

(***************************************************************************)
(* Properties of Menu.do_action                                            *)
(***************************************************************************)
RunUnchanged ==
    /\ r_position = r_before.position
    /\ r_head_position = r_before.head
    /\ r_selected_items = r_before.selected

RunContinues == r_pc = "loop" /\ r_ret = RunNotReturned

\* C17: on Enter, do_action invokes the focused item's handler with that
\* item's payload (in selector mode with the selected set); on a success
\* Outcome the widget hides and returns exactly that Outcome; on a failure
\* Outcome the loop continues with position, head_position and the selected
\* set unchanged; and do_action returns success only from such an Enter.
C17_EnterInvokesFocusedHandler ==
    /\ r_key = "enter" =>
         /\ r_invoked.n = 1 /\ r_invoked.item = r_before.position
         /\ IF r_selector_menu
            THEN r_invoked.kind = "set" /\ r_invoked.set = r_before.selected
            ELSE r_invoked.kind = "payload"
         /\ HandlerSucceeds(r_invoked.h) =>
              /\ r_pc = "idle" /\ ~r_shown
              /\ r_ret = RunResult(TRUE, r_invoked.h, -1, 0, FALSE)
         /\ r_invoked.h \in {"fail", "failPayload"} =>
              RunContinues /\ RunUnchanged /\ r_shown
    /\ (r_ret.kind = "result" /\ r_ret.success) =>
         r_key = "enter" /\ HandlerSucceeds(r_invoked.h)

\* Enter in selector mode with a non-empty selection returned the
\* handler's success
C17_Witness ==
    /\ r_key = "enter" /\ r_selector_menu /\ r_invoked.set # {}
    /\ r_ret.kind = "result" /\ r_ret.success /\ r_position > 0

\* Enter whose handler failed, below the first item of a scrolled list
C17_WitnessFailure ==
    /\ r_key = "enter" /\ r_invoked.h = "fail" /\ r_head_position > 0
    /\ r_pc = "loop"

\* C18: in a list that is not tab-navigable, Up/Left and Down/Right make
\* do_action exit with success = false and direction -1 resp. +1, without
\* moving the focus and without invoking a handler; in a tab-navigable list
\* the same keys navigate by -1/+1 and never exit.
C18_ArrowsExitOrNavigate ==
    /\ (~r_tab_enable /\ r_key \in {"up", "left", "down", "right"}) =>
         /\ r_pc = "idle" /\ r_ret.kind = "result" /\ ~r_ret.success
         /\ r_ret.direction = IF r_key \in {"up", "left"} THEN -1 ELSE 1
         /\ RunUnchanged /\ r_invoked.n = 0
    /\ (r_tab_enable /\ r_key \in {"up", "left", "down", "right"}) =>
         /\ RunContinues
         /\ r_position =
              MinOf(r_num_items - 1,
                    MaxOf(0, r_before.position +
                             (IF r_key \in {"up", "left"} THEN -1 ELSE 1)))

\* C19: Tab makes do_action exit only when can_navigate_outside and
\* tab_enable are both true; the exit has success = false and carries
\* diskIndex = position exactly when save_sel is set, no payload otherwise;
\* when Tab is not permitted the state is unchanged and the loop continues.
C19_TabExit ==
    r_key = "tab" =>
      /\ RunUnchanged /\ r_invoked.n = 0
      /\ IF r_can_navigate_outside /\ r_tab_enable
         THEN /\ r_pc = "idle"
              /\ r_ret = RunResult(FALSE, "none",
                                   IF r_save_sel THEN r_position ELSE -1,
                                   0, FALSE)
         ELSE RunContinues

\* Tab left the list with the saved focus of an item other than the first
C19_Witness ==
    /\ r_key = "tab" /\ r_save_sel /\ r_position > 0
    /\ r_ret.kind = "result" /\ r_ret.diskIndex = r_position

\* Tab was ignored because tab_enable is false
C19_WitnessIgnored ==
    /\ r_key = "tab" /\ r_can_navigate_outside /\ ~r_tab_enable
    /\ r_pc = "loop"

\* C20: a key other than Enter, Space, Tab, the arrows, PageUp, PageDown
\* and Home does not make do_action return and leaves position,
\* head_position and the selected set unchanged; and no key makes an
\* exception leave do_action.
C20_OtherKeysIgnored ==
    /\ r_key = "other" => RunContinues /\ RunUnchanged /\ r_invoked.n = 0
    /\ r_pc # "raised"

\* an unrecognised key arrived with a focus and a selection in place
C20_Witness ==
    /\ r_key = "other" /\ r_position > 0 /\ r_selected_items # {}
    /\ r_pc = "loop"

\* a handler raised and do_action returned the error Outcome
C20_WitnessRaise ==
    r_invoked.h = "raise" /\ r_ret.kind = "result" /\ r_ret.error

(***************************************************************************)
(* The scroll rule of Menu.navigate                                        *)
(***************************************************************************)
\* C30: navigate changes head_position only when the new focus lies outside
\* the old visible window [head, head + H - 1]: a focus below the window
\* gives head = position - H + 1, a focus above it gives head = position,
\* and a focus inside it leaves head_position unchanged.
C30_ScrollOnlyWhenOutside ==
    Navigated =>
      /\ m_position >= m_before_head + m_height
            => m_head_position = m_position - m_height + 1
      /\ m_position < m_before_head => m_head_position = m_position
      /\ (m_before_head <= m_position
            /\ m_position < m_before_head + m_height)
            => m_head_position = m_before_head

\* the focus moved inside a window that had been scrolled down, away from
\* its first row, and the window stayed
C30_Witness ==
    /\ Navigated /\ m_before_head > 0 /\ m_position # m_before
    /\ m_before_head < m_position
    /\ m_position < m_before_head + m_height
    /\ m_head_position = m_before_head

\* the focus left the window downwards, and upwards
C30_WitnessBelow ==
    /\ Navigated /\ m_calls >= 2 /\ m_position >= m_before_head + m_height
    /\ m_head_position = m_position - m_height + 1

C30_WitnessAbove ==
    /\ Navigated /\ m_position < m_before_head
    /\ m_head_position = m_position
(***************************************************************************)
(* What Window.do_action hands back                                        *)
(***************************************************************************)
\* C29: every returning call of Window.do_action returns an Outcome: also
\* when the panel reported success and the button callback returned a
\* failure that is not goBack, the value returned is an Outcome and never
\* an absent value.
C29_RunReturnsOutcome ==
    w_pc = "idle" /\ w_ret.kind # "none" => w_ret.kind = "result"
(***************************************************************************)
(* Exceptions inside Window.do_action                                      *)
(***************************************************************************)
\* the Outcome of a Window as the controller reads it: the success flag and
\* the keys inactive_screen and yes, which no Window Outcome carries
AsActionResult(o) ==
    ActionResult(IF o.success THEN "True" ELSE "False", o.isNone, FALSE, FALSE)

RaisedInside ==
    w_event = "panel_raise" \/ w_cb_last = "raise" \/ w_cb_first = "raise"

\* C23: when the panel's do_action or a button callback raises during
\* Window.do_action, the exception does not leave do_action: it returns a
\* failure Outcome with an error payload, and the configure loop moves on
\* it exactly as on any other failure, to the retreat target of the page.
C23_RaiseBecomesFailureOutcome ==
    /\ w_pc \in {"off", "idle", "panel", "panel_rt", "panel_tab",
                 "panel_arrow", "keys"}
    /\ RaisedInside =>
          /\ w_pc = "idle"
          /\ w_ret = Returned(ErrorOutcome)
          /\ ~w_ret.val.success /\ w_ret.val.error
          /\ \A its \in PageLists, gn \in {"True", "False"} :
                \A i \in 0..(Len(its) - 1) :
                   LET a == InactiveRewrite(AsActionResult(w_ret.val), gn)
                   IN /\ ~Truthy(a.success)
                      /\ ControllerMove(its, i, a) = Retreat(its, i)

\* the panel raised when re-entered from the button row
C23_Witness ==
    /\ w_event = "panel_raise" /\ w_via # "none"
    /\ w_ret = Returned(ErrorOutcome)

\* a button callback raised after a panel success
C23_WitnessCallback ==
    /\ w_event = "panel_success" /\ w_cb_last = "raise" /\ w_cbs >= 1
    /\ w_ret = Returned(ErrorOutcome)
(***************************************************************************)
(* show_window and hide_window                                             *)
(***************************************************************************)
\* C26: show_window after show_window and hide_window after hide_window
\* leave the state of one call; after show_window the shadow, content and
\* text panels are all visible, stacked shadow below content below text;
\* after hide_window none is visible; between operations the three are
\* never partly visible.
C26_ShowHideIdempotent ==
    /\ w_shown \in {AllShown, AllHidden}
    /\ w_event \in {"show", "start"} =>
          /\ w_shown = AllShown
          /\ w_z = <<"shadow", "content", "text">>
    /\ w_event = "hide" => w_shown = AllHidden /\ w_z = <<>>
    /\ (w_event = "show" /\ Visible(w_z_before) = AllShown) => w_z = w_z_before
    /\ (w_event = "hide" /\ Visible(w_z_before) = AllHidden) => w_z = w_z_before
    /\ ShowPanels(ShowPanels(w_z)) = ShowPanels(w_z)
    /\ HidePanels(HidePanels(w_z)) = HidePanels(w_z)
    /\ Visible(ShowPanels(w_z)) = AllShown
    /\ Visible(HidePanels(w_z)) = AllHidden

\* show_window was called on a Window that was already shown
C26_Witness ==
    /\ w_event = "show" /\ w_z_before = <<"shadow", "content", "text">>
    /\ w_z = w_z_before

\* hide_window was called on a Window that was hidden already
C26_WitnessHide ==
    /\ w_event = "hide" /\ w_z_before = <<>> /\ w_z = <<>>
C22_EmptyFileGivesOneLine ==
    (/\ tn_pc \in {"built", "raised"}
     /\ tn_args.coords_ok /\ tn_args.width >= 4 /\ tn_args.height >= 3
     /\ tn_args.menu_items >= 1
     /\ tn_args.path = "file" /\ tn_args.file_lines = 0)
      => /\ tn_pc = "built"
         /\ tn_lines = <<tn_args.width - 3>>
         /\ tn_num_items = 1
         /\ ~tn_show_scroll
(***************************************************************************)
(* A Window larger than the screen                                         *)
(***************************************************************************)
\* C24: constructing a Window whose height exceeds maxy or whose width
\* exceeds maxx raises before any curses window is created or shown.
C24_OversizeWindowRejected ==
    (/\ wn_pc \in {"built", "raised"}
     /\ (wn_args.height > wn_args.maxy \/ wn_args.width > wn_args.maxx))
      => wn_pc = "raised" /\ wn_surfaces = 0
(***************************************************************************)
(* Failures of the download page                                           *)
(***************************************************************************)
\* C25: in FileDownloader.display every external failure (network set-up
\* failing or raising, download failing or raising) is first shown in an
\* error panel that waits for a key, and only then display returns, with
\* ActionResult(False, {'goBack': True}); the configuration map is not
\* modified on these paths.
C25_FailureAcknowledgedBeforeReturn ==
    (d_failure # "none" /\ d_pc \in {"idle", "raised"})
      => /\ d_pc = "idle" /\ d_ret = "goBack"
         /\ d_acked
         /\ d_files = d_files_before
(***************************************************************************)
(* Pages that embed a list                                                 *)
(***************************************************************************)
PageReturnedSuccess ==
    w_pc = "idle" /\ w_ret.kind = "result" /\ w_ret.val.success

\* C27: whenever SelectDisk.display returns success, after any sequence of
\* keys, install_config['disk'] holds the path of the device that is
\* focused in the list at that moment.
C27_DiskIsFocusedDevice ==
    (pg_kind = "disk" /\ PageReturnedSuccess) => pg_disk = r_position

\* the page succeeded through Enter on a button, after the focus of the
\* list had been moved and the list left with Left or Right
C27_Witness ==
    /\ pg_kind = "disk" /\ PageReturnedSuccess
    /\ w_event = "enter" /\ pg_handled = {}
    /\ r_position >= 1 /\ pg_disk = r_position

\* the page succeeded through Enter in the list
C27_WitnessList ==
    /\ pg_kind = "disk" /\ PageReturnedSuccess
    /\ w_event = "panel_success" /\ r_position >= 1
    /\ pg_disk = r_position

\* C28: for a Window with Back and Next that embeds a single-select list
\* (tab navigation off, save_sel off), whenever do_action returns success
\* the handler of the focused list item has been invoked during this run.
C28_SuccessInvokedFocusedHandler ==
    (pg_kind = "wheel" /\ PageReturnedSuccess) => r_position \in pg_handled

(***************************************************************************)
(* The scroll bar of the list                                              *)
(***************************************************************************)
\* C31: the list shows a scroll bar exactly when N > H, and whenever it
\* shows one the thumb is shorter than the track, filled <= H - 1; for
\* N = 7 and H = 3 the thumb size is 1.
C31_ThumbShorterThanTrack ==
    (th_built /\ th_widget = "menu") =>
        /\ th_show_scroll <=> th_num_items > th_height
        /\ th_show_scroll => th_filled <= th_height - 1
        /\ (th_num_items = 7 /\ th_height = 3) => th_filled = 1

\* a list of 7 items was built with a viewport of 3 rows
C31_Witness ==
    /\ th_built /\ th_widget = "menu" /\ th_show_scroll
    /\ th_num_items = 7 /\ th_height = 3 /\ th_filled = 1

\* C32: whenever a scroll bar is drawn, the three segments of the track are
\* non-negative and add up to H, so the loops address exactly the rows
\* 0..H-1 of the viewport, each once.
C32_TrackPartitioned ==
    m_rendered.kind = "bar" =>
        /\ m_rendered.up >= 0 /\ m_rendered.filled >= 0
        /\ m_rendered.down >= 0
        /\ m_rendered.up + m_rendered.filled + m_rendered.down = m_height
        /\ m_rendered.rows = [i \in 1..m_height |-> i - 1]
        /\ ~m_rendered.raised

\* the segments do add up to H in every drawn scroll bar
C32_TrackSum ==
    m_rendered.kind = "bar" =>
        m_rendered.up + m_rendered.filled + m_rendered.down = m_height

\* C33: whenever the scroll bar of the list is drawn, the thumb touches the
\* top of the track exactly when no item is hidden above (up = 0 iff
\* head_position = 0) and the bottom exactly when none is hidden below
\* (down = 0 iff head_position = N - H).
C33_ThumbTouchesEndsExactly ==
    m_rendered.kind = "bar" =>
        /\ m_rendered.up = 0 <=> m_rendered.head = 0
        /\ m_rendered.down = 0 <=> m_rendered.head = m_num_items - m_height

\* a scroll bar was drawn after scrolling so little that rounding alone
\* gave up = 0, and items remain hidden below
C33_Witness ==
    /\ m_rendered.kind = "bar" /\ m_rendered.head > 0
    /\ PyRound(m_rendered.head * m_height, m_num_items) = 0
    /\ m_rendered.up = 1
    /\ m_rendered.head < m_num_items - m_height /\ m_rendered.down > 0

\* a scroll bar was drawn with the list scrolled to its end
C33_WitnessBottom ==
    /\ m_rendered.kind = "bar" /\ m_rendered.head = m_num_items - m_height
    /\ m_rendered.down = 0 /\ m_rendered.up > 0

\* C34: in every state in which the list is drawn, the first refresh after
\* construction included, 0 <= position < N, head_position >= 0 and
\* head_position <= position <= head_position + H - 1: the focused item is
\* among the items drawn.
C34_FocusVisibleWhenRendered ==
    m_rendered.kind # "off" =>
        /\ 0 <= m_rendered.position /\ m_rendered.position < m_num_items
        /\ m_rendered.head >= 0
        /\ m_rendered.head <= m_rendered.position
        /\ m_rendered.position <= m_rendered.head + m_height - 1
        /\ m_rendered.position \in m_rendered.items

\* once navigate has been called the drawn list does hold the focus
C34_FocusVisibleOnceNavigated ==
    (m_rendered.kind # "off" /\ m_calls >= 1
     /\ m_rendered.head = m_head_position
     /\ m_rendered.position = m_position) =>
        m_rendered.position \in m_rendered.items

(***************************************************************************)
(* What a returning do_action leaves on the screen                         *)
(***************************************************************************)
\* C35: whenever Window.do_action returns, with success or with failure and
\* on every path, the three surfaces of the Window are hidden.
C35_ReturnLeavesWindowHidden ==
    (w_pc = "idle" /\ w_ret.kind # "none") => w_shown = AllHidden

\* the paths on which do_action does hide the Window before it returns: a
\* returned Outcome that is neither the success of the goNext short-circuit,
\* nor the error Outcome of an except clause or of a missing panel
C35_HiddenOnHidingPaths ==
    (/\ WinReturned /\ w_ret.kind = "result"
     /\ ~w_ret.val.error
     /\ ~(w_event = "panel_success" /\ HasKey(w_ar, w_ar.goNext)))
    => w_shown = AllHidden

\* C36: in a run in which the panel reports success while the Window owns
\* button items and position p >= 1, the button callback items[p-1] is
\* invoked exactly once.
C36_ButtonInvokedOnce ==
    (/\ w_event = "panel_success" /\ w_ar.success
     /\ w_items > 0 /\ w_event_pos >= 1 /\ w_event_pos <= w_items)
    => w_cbs = 1

\* when the success comes from a later call of the panel (after an arrow
\* key, or the read-text loop) and carries no goNext, the callback is
\* invoked once
C36_OnceOnReentry ==
    (/\ w_event = "panel_success" /\ w_ar.success
     /\ w_items > 0 /\ w_event_pos >= 1 /\ w_event_pos <= w_items
     /\ w_via \notin {"first", "tab"} /\ ~HasKey(w_ar, w_ar.goNext))
    => w_cbs = 1

C37_ScrollOffsetAtMostOnePast ==
    tp_pc # "off" =>
        /\ 0 <= tp_head_position
        /\ tp_head_position <= MaxOf(0, tp_num_items - tp_text_height + 1)
        /\ tp_num_items <= tp_text_height => tp_head_position = 0

\* C39: in the action row of a text pane with M >= 1 actions, Left and
\* Right each move the action focus by one step, in opposite directions,
\* clamped to [0, M-1], and leave head_position alone; Enter hides the
\* pane, invokes the focused action and returns its Outcome, a failure as
\* well as a success (the error Outcome when the action raises).
C39_ActionRow ==
    (tp_pc # "off" /\ tp_menu_items >= 1) =>
        /\ tp_menu_position \in 0..(tp_menu_items - 1)
        /\ tp_key = "left" =>
              /\ tp_menu_position =
                    IF tp_before[2] + 1 > tp_menu_items - 1
                    THEN tp_menu_items - 1 ELSE tp_before[2] + 1
              /\ tp_head_position = tp_before[1]
        /\ tp_key = "right" =>
              /\ tp_menu_position =
                    IF tp_before[2] - 1 < 0 THEN 0 ELSE tp_before[2] - 1
              /\ tp_head_position = tp_before[1]
        /\ tp_key = "enter" =>
              /\ ~tp_shown /\ tp_pc = "idle"
              /\ tp_menu_position = tp_before[2]
              /\ \/ tp_ret.kind = "handler" /\ tp_ret.handler # "raise"
                 \/ tp_ret = TextError

\* Enter returned the failure Outcome of the focused action
C39_Witness ==
    /\ tp_menu_items >= 2 /\ tp_key = "enter" /\ tp_menu_position = 1
    /\ tp_ret = TextHandled("fail") /\ ~tp_shown

\* Left moved the focus one step and Right, at the first action, none
C39_WitnessLeft ==
    /\ tp_menu_items >= 2 /\ tp_key = "left"
    /\ tp_menu_position = tp_before[2] + 1

C39_WitnessClamped ==
    /\ tp_menu_items >= 1 /\ tp_key = "right"
    /\ tp_before[2] = 0 /\ tp_menu_position = 0

(***************************************************************************)
(* Wrapping the text of the pane                                           *)
(***************************************************************************)
NonBlank(s) == SelectSeq(s, LAMBDA c : c \notin Blank)

RECURSIVE Joined(_)
Joined(ls) == IF ls = <<>> THEN <<>> ELSE Head(ls) \o Joined(Tail(ls))

C38_PaddedWhenIndentFits ==
    /\ \A i \in 1..Len(rf_lines) :
          Len(rf_lines[i]) = rf_indent
                             + actual_line_width(rf_line_width, rf_indent)
    /\ (rf_pc # "line" /\ rf_indent < rf_line_width) =>
          \A i \in 1..Len(rf_lines) : Len(rf_lines[i]) = rf_line_width
    /\ (rf_pc = "wrap" /\ rf_lines # <<>>) => Len(rf_rest) < rf_prev
    /\ rf_pc = "done" => NonBlank(Joined(rf_lines)) = NonBlank(rf_line)

====
